---- MODULE Spec2Model ----
(***************************************************************************)
(* Resilient API access layer of Testing-Cursor/api_client.py:             *)
(* RateLimiter, CircuitBreaker, RequestCache and ResilientAPIClient.       *)
(*                                                                         *)
(* Time.  time.time() is the variable now, a whole number of ticks that    *)
(* never decreases and starts at 1 (the wall clock is far from the epoch,  *)
(* so a timestamp is never the falsy 0.0).  None is the value NoneVal.     *)
(*                                                                         *)
(* Tokens.  RateLimiter.tokens is a float; it is kept here in fixed point, *)
(* TokenScale units to one token, and the bucket gains RefillRate units    *)
(* per tick, so that fractions of a token occur.                           *)
(***************************************************************************)
EXTENDS Integers, Sequences, FiniteSets, TLC

VARIABLES
    now,                \* time.time()
    \* ---- RateLimiter
    tokens,             \* RateLimiter.tokens, in 1/TokenScale of a token
    last_refill,        \* RateLimiter.last_refill
    lastWait,           \* history: what the last acquire() returned (NoneVal: none yet)
    zeroWaits,          \* history: single-token acquires that returned 0.0 so far
    burstRun,           \* history: acquire() calls so far while each was acquire(1), else NoneVal
    lastAsk,            \* history: <<n, tokens found after the refill>> of the last acquire(n)
    \* ---- CircuitBreaker
    failure_threshold,  \* CircuitBreakerConfig.failure_threshold
    state,              \* CircuitBreaker.state
    failure_count,      \* CircuitBreaker.failure_count
    last_failure_time,  \* CircuitBreaker.last_failure_time
    pc,                 \* per thread: where it is inside CircuitBreaker.call
    result,             \* history, per thread: how its last call() ended
    probe,              \* history: threads whose current or last call was admitted OPEN -> HALF_OPEN
    consecFails,        \* history: wrapped-function failures since the last success
    \* ---- RequestCache
    max_size,           \* RequestCache.max_size
    cache_index,        \* RequestCache.cache_index: a dict, kept in insertion order
    cache_files,        \* <cache_dir>/<key>.json per key: its text, or NoFile
    index_file,         \* <cache_dir>/index.json: the index last saved, or NoFile
    index_kind,         \* what index.json is: "none" (no file), "whole" (a complete
                        \*   dump), "partial" (opened for writing, the dump not finished)
    stored,             \* history, per key: when and what set() last stored (cleared
                        \*   when set() evicts the key for capacity)
    everSet,            \* history: the (method, url, params) set() was called with
    lastSet,            \* history: the request of the last set(), <<>> before any
    lastGet,            \* history: the last get() since the last set(): its request and what it returned
    run,                \* history: the keys set so far while every set() since the
                        \*   empty cache was of a new key at a later time
    cacheOps,           \* history: number of get()/set() calls made
    \* ---- ResilientAPIClient: one caller's request()
    max_retries,        \* RetryConfig.max_retries
    cache_enabled,      \* CacheConfig.enabled (self.cache is None when FALSE)
    rpc,                \* where the caller is inside request()
    req,                \* the current (or last) request: <<method, url, params>>
    use_cache,          \* its use_cache argument
    attempt,            \* the retry loop's attempt
    wake,               \* the time the current time.sleep() ends
    log,                \* history: outcome of each underlying HTTP call of this request
    sleeps,             \* history: backoff sleeps of this request
    outcome,            \* history: how the last request() ended
    body,               \* history: the payload of the response it returned
    reqCount,           \* history: number of request() calls started
    acquires,           \* history: RateLimiter.acquire() calls made by this request
    prevOk,             \* history: the request of the request() call before this one if it
                        \*   returned a response from the network, else <<>>
    \* ---- the checkpoint directory and CheckpointManager
    disk,               \* contents of each file the manager can name
    mtime,              \* st_mtime of each file, NoneVal when it does not exist
    current_state,      \* self.current_state: an ExportState, or NoState
    checkpoint_file,    \* self.checkpoint_file: a path, or NoPath
    save_counter,       \* self.save_counter
    cpc,                \* where the manager's caller is inside the running operation
    op,                 \* the operation in progress: <<name, argument>>
    returned,           \* history: <<name, argument, checkpoint file>> of the operation
                        \*   that returned last (for resume_export: <<name, reference,
                        \*   outcome>>), <<>> once another one has started
    ioFailed,           \* history: the last save hit an I/O failure
    saved,              \* history: every in-memory state a save has serialized
    ckOps,              \* history: number of manager operations, crashes and I/O failures so far
    \* ---- ContextExporterV2: one export run over the manager
    opc,                \* where the run is
    group,              \* the space or project whose items the run is exporting
    todo,               \* its items the loop has still to visit
    enumeratedPages,    \* history: the pages this run enumerated, by space
    enumeratedIssues,   \* history: the issues this run enumerated, by project
    \* ---- calls observed from outside the objects
    backoff,            \* the last _calculate_backoff call: its configuration, attempt,
                        \*   draw of random.random() and result; <<>> before any
    callTimes,          \* history: the times of the last HTTP calls a caller of the
                        \*   rate-limited request path issued
    searchOffsets       \* history: the offsets the last search_confluence_spaces requested

limiterVars == <<tokens, last_refill, lastWait, zeroWaits, burstRun, lastAsk>>
breakerVars == <<failure_threshold, state, failure_count, last_failure_time,
                 pc, result, probe, consecFails>>
cacheVars == <<max_size, cache_index, cache_files, index_file, index_kind,
               stored, everSet, lastSet, lastGet, run, cacheOps>>
clientVars == <<max_retries, cache_enabled, rpc, req, use_cache, attempt, wake,
                log, sleeps, outcome, body, reqCount, acquires, prevOk>>
managerVars == <<disk, mtime, current_state, checkpoint_file, save_counter, cpc, op,
                 returned, ioFailed, saved, ckOps>>
orchVars == <<opc, group, todo, enumeratedPages, enumeratedIssues>>
exporterVars == <<managerVars, orchVars>>
sideVars == <<backoff, callTimes, searchOffsets>>
vars == <<now, limiterVars, breakerVars, cacheVars, clientVars, exporterVars, sideVars>>

(* ------------------------------ bounds -------------------------------- *)
MaxTime == 5           \* the clock stops here
MaxAcquire == 2        \* acquire(n) is called with n in 0..MaxAcquire
BurstSize == 1         \* RateLimitConfig.burst_size of the modelled limiter
MaxThreshold == 3      \* failure_threshold ranges over 1..MaxThreshold
MaxFailures == 5       \* failure_count is not driven past this
MaxSize == 2           \* max_size ranges over 0..MaxSize
MaxCacheOps == 3       \* get()/set() calls made on the cache
Ttl == 4               \* RequestCache.ttl of the modelled cache, in ticks
MaxRetries == 2        \* max_retries ranges over 0..MaxRetries
MaxRequests == 2       \* request() calls made on the client
RecoveryTimeout == 2   \* CircuitBreakerConfig.recovery_timeout of the modelled breaker, in ticks
MinRequestInterval == 2 \* RateLimitConfig.min_request_interval of the modelled limiter, in ticks
MaxDelay == 2          \* RetryConfig.max_delay of the modelled client, in ticks
CheckpointInterval == 2 \* CheckpointManager.checkpoint_interval of the modelled manager
MaxCkptOps == 5        \* manager operations called, crashes and I/O failures included
MaxKeep == 1           \* days_to_keep ranges over 0..MaxKeep, in ticks
MaxDays == 2           \* the clock of the checkpoint directory stops here
JiraBatchSize == 1     \* config.batch.jira_batch_size of the modelled exporter

(* ---------------------------- program constants ----------------------- *)
NoneVal == -1          \* None, where the other values are numbers
TokenScale == 2        \* units of tokens to one token (burst_size tokens fill the bucket)
RefillRate == 1        \* units of tokens gained per tick (requests_per_second)

Threads == {"t1", "t2"}

Min(a, b) == IF a < b THEN a ELSE b
Max(a, b) == IF a > b THEN a ELSE b

\* Python truthiness of an Optional[float]: None and 0.0 are falsy.
Truthy(x) == x # NoneVal /\ x # 0

Tick ==
    /\ now < MaxTime
    /\ now' = now + 1
    /\ UNCHANGED <<limiterVars, breakerVars, cacheVars, clientVars, exporterVars, sideVars>>

(* ============================ RateLimiter ============================== *)
max_tokens == BurstSize * TokenScale

\* acquire(), lines 45-47, with the cap of line 47 left out
RefilledNoCap == tokens + (now - last_refill) * RefillRate

\* acquire(), lines 45-47: the bucket after the refill
Refilled == Min(max_tokens, tokens + (now - last_refill) * RefillRate)

\* acquire(), lines 50-58, with line 57 (the floor of min_request_interval) left out
AcquireWaitNoFloor(n) ==
    IF Refilled >= n * TokenScale
    THEN 0
    ELSE (n * TokenScale - Refilled) \div RefillRate

\* acquire(), lines 50-58, with `self.tokens > tokens` for the test of line 50
AcquireWaitStrict(n) ==
    IF Refilled > n * TokenScale
    THEN 0
    ELSE Max((n * TokenScale - Refilled) \div RefillRate, MinRequestInterval)

\* acquire(), lines 50-58: the wait returned for n tokens
AcquireWait(n) ==
    IF Refilled >= n * TokenScale
    THEN 0
    ELSE Max((n * TokenScale - Refilled) \div RefillRate, MinRequestInterval)

\* acquire(), lines 41-58: the limiter's fields after acquire(n)
Acquire(n) ==
    /\ tokens' = IF Refilled >= n * TokenScale THEN Refilled - n * TokenScale ELSE Refilled
    /\ last_refill' = now

\* history: the run of single-token acquires since construction, after acquire(n)
BurstRunAfter(n) ==
    IF n = 1 /\ burstRun # NoneVal
    THEN Min(burstRun + 1, BurstSize + 1)
    ELSE NoneVal

LimiterAcquire ==
    \E n \in 0..MaxAcquire :
        /\ Acquire(n)
        /\ burstRun' = BurstRunAfter(n)
        /\ lastAsk' = <<n, Refilled>>
        /\ lastWait' = AcquireWait(n)
        /\ zeroWaits' = IF n = 1 /\ AcquireWait(n) = 0 /\ zeroWaits < BurstSize + 1
                        THEN zeroWaits + 1 ELSE zeroWaits
        /\ UNCHANGED <<now, exporterVars, sideVars, breakerVars, cacheVars, clientVars>>

(* =========================== CircuitBreaker ============================ *)
CLOSED == "closed"
OPEN == "open"
HALF_OPEN == "half_open"

\* _should_attempt_reset with > in place of >=
ShouldAttemptResetStrict ==
    Truthy(last_failure_time) /\ now - last_failure_time > RecoveryTimeout

ShouldAttemptReset ==
    Truthy(last_failure_time) /\ now - last_failure_time >= RecoveryTimeout

\* call(), lines 78-83, never rejecting
RejectsNever == FALSE
\* call(), lines 78-83: TRUE when the call is rejected with "Circuit breaker is OPEN"
Rejects == state = OPEN /\ ~ShouldAttemptReset

\* call(), lines 78-83: the state after the admission check of an admitted call
StateAfterAdmission == IF state = OPEN THEN HALF_OPEN ELSE state

\* _on_failure with > in place of >=
StateAfterFailureStrict ==
    IF failure_count + 1 > failure_threshold THEN OPEN ELSE state

\* _on_failure without the test of line 110
StateAfterFailureAlways == OPEN

\* _on_failure opening the circuit from CLOSED only
StateAfterFailureFromClosed ==
    IF state = CLOSED /\ failure_count + 1 >= failure_threshold THEN OPEN ELSE state

\* _on_failure, lines 110-111
StateAfterFailure ==
    IF failure_count + 1 >= failure_threshold THEN OPEN ELSE state

\* call(), lines 78-83, by thread t
CallEnter(t) ==
    /\ pc[t] = "idle"
    /\ IF Rejects
       THEN /\ result' = [result EXCEPT ![t] = "circuit_open"]
            /\ probe' = probe \ {t}
            /\ UNCHANGED <<state, pc>>
       ELSE /\ state' = StateAfterAdmission
            /\ pc' = [pc EXCEPT ![t] = "invoking"]
            /\ result' = [result EXCEPT ![t] = "pending"]
            /\ probe' = IF state = OPEN THEN probe \cup {t} ELSE probe \ {t}
    /\ UNCHANGED <<now, exporterVars, sideVars, limiterVars, cacheVars, clientVars, failure_threshold, failure_count,
                   last_failure_time, consecFails>>

\* call(), lines 86-88, and _on_success: the wrapped function returned
CallReturn(t) ==
    /\ pc[t] = "invoking"
    /\ failure_count' = 0
    /\ state' = CLOSED
    /\ pc' = [pc EXCEPT ![t] = "idle"]
    /\ result' = [result EXCEPT ![t] = "ok"]
    /\ consecFails' = 0
    /\ UNCHANGED <<now, exporterVars, sideVars, limiterVars, cacheVars, clientVars, failure_threshold, last_failure_time, probe>>

\* call(), lines 89-91, and _on_failure: the wrapped function raised
CallRaise(t) ==
    /\ pc[t] = "invoking"
    /\ failure_count < MaxFailures
    /\ failure_count' = failure_count + 1
    /\ last_failure_time' = now
    /\ state' = StateAfterFailure
    /\ pc' = [pc EXCEPT ![t] = "idle"]
    /\ result' = [result EXCEPT ![t] = "raised"]
    /\ consecFails' = consecFails + 1
    /\ UNCHANGED <<now, exporterVars, sideVars, limiterVars, cacheVars, clientVars, failure_threshold, probe>>

(* ============================ RequestCache ============================= *)
\* Python values of the params argument: None, {} and two non-empty dicts.
ParamsNone == "None"
ParamsEmpty == "{}"
ParamsSet == {ParamsNone, ParamsEmpty, "{'page': 1}"}

\* The calls made on the cache: (method, url, params).
Requests ==
    {<<"GET", "u1", p>> : p \in ParamsSet} \cup {<<"GET", "u2", ParamsNone>>,
                                                 <<"POST", "u1", ParamsNone>>}

\* Python values of a response body (what response.json() yields): None and
\* a dict; their JSON texts; json.dump and json.load between them.
PyNone == "None"
Payloads == {PyNone, "{'result': 'a'}"}
NoFile == "<no file>"
JsonDump(v) ==
    CASE v = PyNone -> "null"
      [] v = "{'result': 'a'}" -> "{\"result\": \"a\"}"
JsonLoad(text) ==
    CASE text = "null" -> PyNone
      [] text = "{\"result\": \"a\"}" -> "{'result': 'a'}"

\* json.dumps(params, sort_keys=True) of a non-empty dict
JsonDumpsParams(p) == CASE p = "{'page': 1}" -> "{\"page\": 1}"

\* Python truthiness of params: None and {} are falsy.
ParamsTruthy(p) == p # ParamsNone /\ p # ParamsEmpty

\* _get_cache_key, lines 144-147.  cache_data is the list of the pieces the
\* f-string joins; md5 is taken as injective, so the key is cache_data.
\* _get_cache_key without lines 145-146: params left out of the key
CacheKeyNoParams(m, u, p) == <<m, u>>

CacheKey(m, u, p) ==
    IF ParamsTruthy(p) THEN <<m, u, JsonDumpsParams(p)>> ELSE <<m, u>>
KeyOf(r) == CacheKey(r[1], r[2], r[3])
AllKeys == {KeyOf(r) : r \in Requests}

\* dict operations on cache_index, a sequence of [key, timestamp] in insertion order
InIndex(d, k) == \E i \in 1..Len(d) : d[i].key = k
TimestampOf(d, k) == d[CHOOSE i \in 1..Len(d) : d[i].key = k].timestamp
DictDel(d, k) == SelectSeq(d, LAMBDA e : e.key # k)
DictPut(d, k, ts) ==
    IF InIndex(d, k)
    THEN [i \in 1..Len(d) |-> IF d[i].key = k THEN [key |-> k, timestamp |-> ts] ELSE d[i]]
    ELSE Append(d, [key |-> k, timestamp |-> ts])

\* set(), lines 179-180, choosing the newest entry instead of the oldest
NewestKey(d) ==
    d[CHOOSE i \in 1..Len(d) :
        \A j \in 1..Len(d) :
            d[j].timestamp < d[i].timestamp \/ (d[j].timestamp = d[i].timestamp /\ j >= i)].key

\* set(), lines 179-180: min() over the keys by timestamp, the first of equals
OldestKey(d) ==
    d[CHOOSE i \in 1..Len(d) :
        \A j \in 1..Len(d) :
            d[j].timestamp > d[i].timestamp \/ (d[j].timestamp = d[i].timestamp /\ j >= i)].key

\* get(), line 156, with <= in place of <
FreshInclusive(ts) == now - ts <= Ttl

\* get(), line 156
Fresh(ts) == now - ts < Ttl

\* get(), lines 154-161: the entry is served
Served(k) ==
    /\ InIndex(cache_index, k)
    /\ Fresh(TimestampOf(cache_index, k))
    /\ cache_files[k] # NoFile

\* get(), lines 149-169: what get returns (None when absent)
GetReturn(k) == IF Served(k) THEN JsonLoad(cache_files[k]) ELSE PyNone

\* get(), lines 165-167: the index after get (an entry not served is deleted)
IndexAfterGet(k) ==
    IF InIndex(cache_index, k) /\ ~Served(k) THEN DictDel(cache_index, k) ELSE cache_index

\* set(), line 177, with > in place of >=
MustEvictLate == Len(cache_index) > max_size

\* set(), line 177
MustEvict == Len(cache_index) >= max_size

\* set(), lines 177-195: the index after set of key k
IndexAfterSet(k) ==
    DictPut(IF MustEvict THEN DictDel(cache_index, OldestKey(cache_index)) ELSE cache_index,
            k, now)

\* set(), lines 182-187: the payload files after set of key k with response v
FilesAfterSet(k, v) ==
    [f \in AllKeys |->
        IF f = k THEN JsonDump(v)
        ELSE IF MustEvict /\ f = OldestKey(cache_index) THEN NoFile
        ELSE cache_files[f]]

NoStored == [at |-> NoneVal, payload |-> PyNone]

\* RequestCache.get(m, u, p), lines 149-169, with _save_index
CacheGet(r) ==
    /\ cache_index' = IndexAfterGet(KeyOf(r))
    /\ index_file' = IF cache_index' # cache_index THEN cache_index' ELSE index_file
    /\ index_kind' = IF cache_index' # cache_index THEN "whole" ELSE index_kind
    /\ lastGet' = <<r, GetReturn(KeyOf(r))>>
    /\ UNCHANGED <<max_size, cache_files, stored, everSet, lastSet, run>>

\* RequestCache.set(m, u, v, p), lines 171-195, with _save_index
CacheSet(r, v) ==
    /\ ~(MustEvict /\ cache_index = <<>>)
    /\ cache_index' = IndexAfterSet(KeyOf(r))
    /\ cache_files' = FilesAfterSet(KeyOf(r), v)
    /\ index_file' = cache_index'
    /\ index_kind' = "whole"
    /\ stored' = [k \in AllKeys |->
                    IF k = KeyOf(r) THEN [at |-> now, payload |-> v]
                    ELSE IF MustEvict /\ k = OldestKey(cache_index) THEN NoStored
                    ELSE stored[k]]
    /\ everSet' = everSet \cup {r}
    /\ lastSet' = r
    /\ lastGet' = <<>>
    /\ run' = IF /\ run # <<"broken">>
                 /\ \A i \in 1..Len(run) : run[i] # KeyOf(r)
                 /\ \A k \in AllKeys : stored[k].at < now
              THEN Append(run, KeyOf(r)) ELSE <<"broken">>
    /\ UNCHANGED max_size

\* RequestCache.set, lines 177-180, with max_size = 0 on an empty index:
\* min() of an empty sequence raises ValueError before anything is written
CacheSetRaises(r, v) ==
    /\ MustEvict /\ cache_index = <<>>
    /\ UNCHANGED <<max_size, cache_index, cache_files, index_file, index_kind, stored,
                   everSet, lastSet, lastGet, run>>

\* a caller's get(), set(): one of the MaxCacheOps calls made on the cache
GetCall ==
    /\ cacheOps < MaxCacheOps
    /\ \E r \in Requests : CacheGet(r)
    /\ cacheOps' = cacheOps + 1
    /\ UNCHANGED <<now, exporterVars, sideVars, limiterVars, breakerVars, clientVars>>

SetCall ==
    /\ cacheOps < MaxCacheOps
    /\ \E r \in Requests, v \in Payloads : CacheSet(r, v)
    /\ cacheOps' = cacheOps + 1
    /\ UNCHANGED <<now, exporterVars, sideVars, limiterVars, breakerVars, clientVars>>

SetCallRaises ==
    /\ cacheOps < MaxCacheOps
    /\ \E r \in Requests, v \in Payloads : CacheSetRaises(r, v)
    /\ cacheOps' = cacheOps + 1
    /\ UNCHANGED <<now, exporterVars, sideVars, limiterVars, breakerVars, clientVars>>

\* _save_index, lines 138-140: where the process can be killed: before the
\* open of index.json, between the open (which truncates the file) and the end
\* of json.dump, after the file is closed
SaveIndexSteps == {"open", "dump", "close"}

\* _load_index, lines 125-134, over the directory as the primed variables
\* leave it: a file that does not parse gives {}
LoadIndexAfter == IF index_kind' = "whole" THEN index_file' ELSE <<>>

\* set(), lines 171-195, killed inside _save_index at the given step; the
\* next process constructs its RequestCache over the directory (lines 117-123)
SetCallKilled(step) ==
    /\ cacheOps < MaxCacheOps
    /\ \E r \in Requests, v \in Payloads :
         /\ ~(MustEvict /\ cache_index = <<>>)
         /\ cache_files' = FilesAfterSet(KeyOf(r), v)
         /\ CASE step = "open" -> UNCHANGED <<index_file, index_kind>>
              [] step = "dump" -> index_kind' = "partial" /\ UNCHANGED index_file
              [] step = "close" -> /\ index_file' = IndexAfterSet(KeyOf(r))
                                   /\ index_kind' = "whole"
    /\ cache_index' = LoadIndexAfter
    /\ cacheOps' = cacheOps + 1
    /\ UNCHANGED <<max_size, stored, everSet, lastSet, lastGet, run>>
    /\ UNCHANGED <<now, exporterVars, sideVars, limiterVars, breakerVars, clientVars>>

(* ========================= ResilientAPIClient ========================== *)
RetryOnStatusCodes == {429, 500, 502, 503, 504}
InitialDelay == 1
ExponentialBase == 2
Jitter == TRUE

\* What one underlying HTTP call (_make_request) does: a response with a
\* status, or a transport error that carries no response (NoneVal).
HttpStatuses == {200, 404, 500, NoneVal}
\* The body of a 200 response: a JSON value, or text json() cannot parse.
NotJson == "<not json>"
HttpBodies == Payloads \cup {NotJson}
ClientRequests == {<<"GET", "u1", ParamsNone>>, <<"POST", "u1", ParamsNone>>}

RECURSIVE Pow(_, _)
Pow(b, e) == IF e = 0 THEN 1 ELSE b * Pow(b, e - 1)

\* _calculate_backoff, lines 241-251: the least number of whole ticks the
\* sleep lasts (with jitter the delay may be as short as 0.75 of it)
BackoffTicks(a) ==
    LET delay == Min(InitialDelay * Pow(ExponentialBase, a), MaxDelay)
    IN  Max(0, IF Jitter THEN (3 * delay) \div 4 ELSE delay)

\* request(), line 294, with the test of the method left out
CacheableAnyMethod == use_cache /\ cache_enabled

\* request(), line 267 and line 294: the cache applies to this request
Cacheable == use_cache /\ cache_enabled /\ req[1] = "GET"

\* request(), line 302: the except clause catches every exception
CatchesAll(exc) == TRUE

\* request(), line 302: the except clause catches RequestException only
Catches(exc) == exc = "RequestException"

\* request(), line 306, with the last retry left out
RetriesLeftShort(a) == a + 1 < max_retries

\* request(), line 306
RetriesLeft(a) == a < max_retries

\* request(), lines 308-310, with every status taken as retryable
NonRetryableNever(status) == FALSE

\* request(), lines 308-310: the error carries a response whose status is
\* not in retry_on_status_codes
NonRetryable(status) == status # NoneVal /\ status \notin RetryOnStatusCodes

\* request(), lines 302-322, with the time.sleep(backoff) of line 318 left out
HandleErrorNoSleep(status, raised) ==
    IF RetriesLeft(attempt) /\ ~NonRetryable(status)
    THEN /\ rpc' = "backoff"
         /\ wake' = now
         /\ UNCHANGED <<outcome, sleeps>>
    ELSE /\ rpc' = "idle"
         /\ outcome' = raised
         /\ UNCHANGED <<wake, sleeps>>

\* request(), lines 302-322: the except clause's body for an error with the
\* given status: sleep a backoff and loop, or re-raise
HandleError(status, raised) ==
    IF RetriesLeft(attempt) /\ ~NonRetryable(status)
    THEN /\ rpc' = "backoff"
         /\ wake' = now + BackoffTicks(attempt)
         /\ sleeps' = sleeps + 1
         /\ UNCHANGED outcome
    ELSE /\ rpc' = "idle"
         /\ outcome' = raised
         /\ UNCHANGED <<wake, sleeps>>

\* request(), lines 266-276: the call starts with the cache lookup
RequestStart(r, uc) ==
    /\ rpc = "idle"
    /\ reqCount < MaxRequests
    /\ reqCount' = reqCount + 1
    /\ req' = r
    /\ use_cache' = uc
    /\ log' = <<>>
    /\ sleeps' = 0
    /\ attempt' = 0
    /\ acquires' = 0
    /\ prevOk' = IF outcome = "ok" THEN req ELSE <<>>
    /\ IF uc /\ cache_enabled /\ r[1] = "GET"
       THEN /\ CacheGet(r)
            /\ IF GetReturn(KeyOf(r)) # PyNone
               THEN /\ rpc' = "idle"
                    /\ outcome' = "cached"
                    /\ body' = GetReturn(KeyOf(r))
               ELSE /\ rpc' = "acquire"
                    /\ outcome' = "pending"
                    /\ body' = PyNone
       ELSE /\ rpc' = "acquire"
            /\ outcome' = "pending"
            /\ body' = PyNone
            /\ UNCHANGED <<max_size, cache_index, cache_files, index_file, index_kind,
                           stored, everSet, lastSet, lastGet, run>>
    /\ UNCHANGED <<now, exporterVars, sideVars, limiterVars, breakerVars, cacheOps, max_retries, cache_enabled, wake>>

\* request(), lines 279-282: rate limiting
RequestAcquire ==
    /\ rpc = "acquire"
    /\ Acquire(1)
    /\ lastWait' = AcquireWait(1)
    /\ acquires' = acquires + 1
    /\ burstRun' = BurstRunAfter(1)
    /\ lastAsk' = <<1, Refilled>>
    /\ IF AcquireWait(1) > 0
       THEN rpc' = "rate_sleep" /\ wake' = now + AcquireWait(1)
       ELSE rpc' = "attempt" /\ UNCHANGED wake
    /\ UNCHANGED <<now, exporterVars, sideVars, zeroWaits, breakerVars, cacheVars, max_retries, cache_enabled,
                   req, use_cache, attempt, log, sleeps, outcome, body, reqCount, prevOk>>

\* request(), line 282: time.sleep(wait_time) returns
RateSleepDone ==
    /\ rpc = "rate_sleep"
    /\ now >= wake
    /\ rpc' = "attempt"
    /\ wake' = 0
    /\ UNCHANGED <<now, exporterVars, sideVars, limiterVars, breakerVars, cacheVars, max_retries, cache_enabled, acquires,
                   req, use_cache, attempt, log, sleeps, outcome, body, reqCount, prevOk>>

\* request(), lines 286-291: one attempt enters CircuitBreaker.call
RequestAttempt ==
    /\ rpc = "attempt"
    /\ IF Rejects
       THEN /\ IF Catches("Exception")
               THEN HandleError(NoneVal, "circuit_open")
               ELSE /\ rpc' = "idle"
                    /\ outcome' = "circuit_open"
                    /\ UNCHANGED <<wake, sleeps>>
            /\ UNCHANGED state
       ELSE /\ state' = StateAfterAdmission
            /\ rpc' = "http"
            /\ UNCHANGED <<wake, sleeps, outcome>>
    /\ UNCHANGED <<now, exporterVars, sideVars, limiterVars, cacheVars, failure_threshold, failure_count,
                   last_failure_time, pc, result, probe, consecFails,
                   max_retries, cache_enabled, acquires, req, use_cache, attempt, log, body, reqCount, prevOk>>

\* request(), lines 289-300: the underlying call returned a 2xx response
HttpSuccess(b) ==
    /\ rpc = "http"
    /\ log' = Append(log, 200)
    /\ failure_count' = 0
    /\ state' = CLOSED
    /\ consecFails' = 0
    /\ IF Cacheable /\ b # NotJson /\ ~(MustEvict /\ cache_index = <<>>)
       THEN CacheSet(req, b)
       ELSE UNCHANGED <<max_size, cache_index, cache_files, index_file, index_kind,
                        stored, everSet, lastSet, lastGet, run>>
    /\ rpc' = "idle"
    /\ outcome' = "ok"
    /\ body' = b
    /\ UNCHANGED <<now, exporterVars, sideVars, limiterVars, failure_threshold, last_failure_time, pc, result, probe,
                   cacheOps, max_retries, cache_enabled, acquires, req, use_cache, attempt, wake,
                   sleeps, reqCount, prevOk>>

\* request(), lines 289-291 and 302-322: the underlying call raised a
\* RequestException (an HTTPError with a status, or an error with no response)
HttpFailure(status) ==
    /\ rpc = "http"
    /\ failure_count < MaxFailures
    /\ log' = Append(log, status)
    /\ failure_count' = failure_count + 1
    /\ last_failure_time' = now
    /\ state' = StateAfterFailure
    /\ consecFails' = consecFails + 1
    /\ IF Catches("RequestException")
       THEN HandleError(status, "http_error")
       ELSE /\ rpc' = "idle"
            /\ outcome' = "http_error"
            /\ UNCHANGED <<wake, sleeps>>
    /\ UNCHANGED <<now, exporterVars, sideVars, limiterVars, failure_threshold, pc, result, probe, cacheVars,
                   max_retries, cache_enabled, acquires, req, use_cache, attempt, body, reqCount, prevOk>>

(* ---- failures of the cache's files inside request() ---- *)
\* the points of RequestCache.set at which a file operation can raise: the
\* write of the payload file (lines 185-187), the write of index.json (line 195)
SetFailurePoints == {"payload", "index"}

\* request(), lines 267-268, where get() fails to read the payload file
\* (lines 159-163): the error is passed over, the entry is deleted, the
\* index is saved and get() returns None
RequestStartPayloadUnreadable(r, uc) ==
    /\ rpc = "idle"
    /\ reqCount < MaxRequests
    /\ uc /\ cache_enabled /\ r[1] = "GET"
    /\ Served(KeyOf(r))
    /\ reqCount' = reqCount + 1
    /\ req' = r
    /\ use_cache' = uc
    /\ log' = <<>>
    /\ sleeps' = 0
    /\ attempt' = 0
    /\ acquires' = 0
    /\ prevOk' = IF outcome = "ok" THEN req ELSE <<>>
    /\ cache_index' = DictDel(cache_index, KeyOf(r))
    /\ index_file' = cache_index'
    /\ index_kind' = "whole"
    /\ lastGet' = <<r, PyNone>>
    /\ rpc' = "acquire"
    /\ outcome' = "pending"
    /\ body' = PyNone
    /\ UNCHANGED <<now, exporterVars, sideVars, limiterVars, breakerVars, max_size, cache_files, stored,
                   everSet, lastSet, run, cacheOps, max_retries, cache_enabled, wake>>

\* request(), lines 267-268, where get() deletes the entry (expired, or its
\* payload file missing or unreadable) and _save_index raises at the open of
\* index.json (lines 139-140, called at line 167): nothing catches it in
\* get() or in request()
RequestStartIndexUnwritable(r, uc) ==
    /\ rpc = "idle"
    /\ reqCount < MaxRequests
    /\ uc /\ cache_enabled /\ r[1] = "GET"
    /\ InIndex(cache_index, KeyOf(r))
    /\ reqCount' = reqCount + 1
    /\ req' = r
    /\ use_cache' = uc
    /\ log' = <<>>
    /\ sleeps' = 0
    /\ attempt' = 0
    /\ acquires' = 0
    /\ prevOk' = IF outcome = "ok" THEN req ELSE <<>>
    /\ cache_index' = DictDel(cache_index, KeyOf(r))
    /\ lastGet' = <<r, "raised">>
    /\ rpc' = "idle"
    /\ outcome' = "cache_error"
    /\ body' = PyNone
    /\ UNCHANGED <<now, exporterVars, sideVars, limiterVars, breakerVars, max_size, cache_files, index_file, index_kind,
                   stored, everSet, lastSet, run, cacheOps, max_retries, cache_enabled, wake>>

\* request(), lines 289-300, where the underlying call returned a 2xx
\* response and cache.set raises at the given point: `except: pass` of
\* lines 297-298 passes it over and the response is returned
HttpSuccessSetFails(b, point) ==
    /\ rpc = "http"
    /\ Cacheable /\ b # NotJson /\ ~(MustEvict /\ cache_index = <<>>)
    /\ log' = Append(log, 200)
    /\ failure_count' = 0
    /\ state' = CLOSED
    /\ consecFails' = 0
    /\ IF point = "payload"
       THEN /\ cache_index' = IF MustEvict
                               THEN DictDel(cache_index, OldestKey(cache_index))
                               ELSE cache_index
            /\ cache_files' = [f \in AllKeys |->
                                 IF MustEvict /\ f = OldestKey(cache_index)
                                 THEN NoFile ELSE cache_files[f]]
       ELSE /\ cache_index' = IndexAfterSet(KeyOf(req))
            /\ cache_files' = FilesAfterSet(KeyOf(req), b)
    /\ rpc' = "idle"
    /\ outcome' = "ok"
    /\ body' = b
    /\ UNCHANGED <<now, exporterVars, sideVars, limiterVars, failure_threshold, last_failure_time, pc, result,
                   probe, max_size, index_file, index_kind, stored, everSet, lastSet, lastGet, run,
                   cacheOps, max_retries, cache_enabled, acquires, req, use_cache, attempt, wake,
                   sleeps, reqCount, prevOk>>

\* request(), line 318: time.sleep(backoff) returns and the loop goes on
BackoffDone ==
    /\ rpc = "backoff"
    /\ now >= wake
    /\ attempt' = attempt + 1
    /\ rpc' = "attempt"
    /\ wake' = 0
    /\ UNCHANGED <<now, exporterVars, sideVars, limiterVars, breakerVars, cacheVars, max_retries, cache_enabled, acquires,
                   req, use_cache, log, sleeps, outcome, body, reqCount, prevOk>>

(* ============ request() on its rate-limited path, call by call ========= *)
MaxRateCalls == 4      \* request() calls made on the rate-limited path

\* request(), lines 278-291, for a call that misses the cache and whose first
\* attempt succeeds: acquire(), and with no wait the HTTP call is issued at once
RateLimitedRequest ==
    /\ rpc = "idle"
    /\ Len(callTimes) < MaxRateCalls
    /\ Acquire(1)
    /\ lastWait' = AcquireWait(1)
    /\ burstRun' = BurstRunAfter(1)
    /\ lastAsk' = <<1, Refilled>>
    /\ IF AcquireWait(1) > 0
       THEN /\ rpc' = "rate_sleep"
            /\ wake' = now + AcquireWait(1)
            /\ UNCHANGED callTimes
       ELSE /\ callTimes' = Append(callTimes, now)
            /\ UNCHANGED <<rpc, wake>>
    /\ UNCHANGED <<now, exporterVars, backoff, searchOffsets, zeroWaits, breakerVars, cacheVars,
                   max_retries, cache_enabled, acquires, req, use_cache, attempt, log,
                   sleeps, outcome, body, reqCount, prevOk>>

\* request(), lines 282-291: time.sleep(wait_time) returns and the HTTP call
\* is issued; acquire() is not called again
RateLimitedWake ==
    /\ rpc = "rate_sleep"
    /\ now >= wake
    /\ callTimes' = Append(callTimes, now)
    /\ rpc' = "idle"
    /\ wake' = 0
    /\ UNCHANGED <<now, exporterVars, backoff, searchOffsets, limiterVars, breakerVars, cacheVars,
                   max_retries, cache_enabled, acquires, req, use_cache, attempt, log,
                   sleeps, outcome, body, reqCount, prevOk>>

(* ====================== _calculate_backoff alone ======================= *)
\* random.random() returns one of RandomSteps evenly spaced values of [0, 1)
RandomSteps == 4
\* a delay is held in units of 1/BackoffScale seconds, so that a quarter of
\* a delay times a draw is a whole number
BackoffScale == 4 * RandomSteps
BackoffMaxInitial == 2   \* largest RetryConfig.initial_delay drawn
BackoffMaxBase    == 3   \* largest RetryConfig.exponential_base drawn
BackoffMaxCap     == 4   \* largest RetryConfig.max_delay drawn
BackoffMaxAttempt == 2   \* largest attempt number drawn

\* the same computation without the cap of max_delay
CalculateBackoffUncapped(initial_delay, exponential_base, max_delay, jitter, a, rnd) ==
    LET delay == initial_delay * Pow(exponential_base, a) * BackoffScale
        jit   == IF jitter
                 THEN initial_delay * Pow(exponential_base, a) * (2 * rnd - RandomSteps)
                 ELSE 0
    IN  Max(0, delay + jit)

\* _calculate_backoff(attempt): delay = min(initial * base^attempt, max_delay);
\* with jitter, delay += delay * 0.25 * (2 * random() - 1); return max(0, delay).
\* rnd / RandomSteps is the draw of random.random(); the result is in units
\* of 1/BackoffScale.
CalculateBackoff(initial_delay, exponential_base, max_delay, jitter, a, rnd) ==
    LET d     == Min(initial_delay * Pow(exponential_base, a), max_delay)
        delay == d * BackoffScale
        jit   == IF jitter THEN d * (2 * rnd - RandomSteps) ELSE 0
    IN  Max(0, delay + jit)

CalculateBackoffCall(initial_delay, exponential_base, max_delay, jitter, a, rnd) ==
    /\ backoff' = [initial_delay |-> initial_delay,
                   exponential_base |-> exponential_base,
                   max_delay |-> max_delay,
                   jitter |-> jitter,
                   attempt |-> a,
                   random |-> rnd,
                   result |-> CalculateBackoff(initial_delay, exponential_base,
                                               max_delay, jitter, a, rnd)]
    /\ UNCHANGED <<now, limiterVars, breakerVars, cacheVars, clientVars, exporterVars,
                   callTimes, searchOffsets>>

(* ========================== CheckpointManager ========================== *)
\* datetime.now() moves on between two operations of the manager (an
\* operation takes less than one unit of this clock)
DayPasses ==
    /\ now < MaxDays
    /\ cpc = "idle"
    /\ now' = now + 1
    /\ UNCHANGED <<limiterVars, breakerVars, cacheVars, clientVars, exporterVars, sideVars>>

ExportIds == {"e1", "e2"}                 \* values create_export_id returns
SpaceKeys == {"S1"}                       \* Confluence spaces
PageIds == {"p1", "p2"}                   \* Confluence pages
ProjectKeys == {"J1"}                     \* Jira projects
IssueKeys == {"i1"}                       \* Jira issues
ErrorTypes == {"confluence_search"}       \* error_type arguments of record_error

\* Paths: <<stem, export id, suffix>>
CkptFile(e) == <<"checkpoint", e, "json">>
WithSuffix(path, suffix) == <<path[1], path[2], suffix>>
NoPath == <<>>
Files == {WithSuffix(CkptFile(e), suf) : e \in ExportIds, suf \in {"json", "tmp", "complete"}}
\* what glob("checkpoint_*.json") can match
GlobCheckpoints == {CkptFile(e) : e \in ExportIds}

\* File contents
Absent == [kind |-> "none", data |-> <<>>]
PartialText == [kind |-> "partial", data |-> <<>>]
\* json.dump(d, f) of a dict d, and the text of a file that holds one
JsonText(d) == [kind |-> "json", data |-> d]
Exists(path) == disk[path].kind # "none"

NoState == [export_id |-> PyNone]
Active == current_state # NoState

\* ExportState(...) as start_new_export builds it, lines 90-101 (the fields
\* the manager's operations read; its timestamps and labels are left out)
NewState(e) ==
    [export_id |-> e,
     confluence_spaces_completed |-> <<>>,
     confluence_pages_exported |-> {},
     jira_projects_completed |-> <<>>,
     jira_issues_exported |-> {},
     current_operation |-> PyNone,
     current_batch_start |-> 0,
     errors_encountered |-> <<>>]
StateFields == DOMAIN NewState("e1")

\* list(a_set), lines 58-59
RECURSIVE SetToList(_)
SetToList(S) ==
    IF S = {} THEN <<>>
    ELSE LET x == CHOOSE y \in S : TRUE
         IN <<x>> \o SetToList(S \ {x})
\* set(a_list) that loses the list's first element
ListToSetTail(l) == {l[i] : i \in 2..Len(l)}
\* set(a_list), lines 47-50
ListToSet(l) == {l[i] : i \in 1..Len(l)}

\* ExportState.to_dict, lines 54-60
ToDict(s) ==
    [s EXCEPT !.confluence_pages_exported = SetToList(@),
              !.jira_issues_exported = SetToList(@)]
\* ExportState.from_dict with __post_init__, lines 45-52 and 62-65
FromDict(d) ==
    [d EXCEPT !.confluence_pages_exported = ListToSet(@),
              !.jira_issues_exported = ListToSet(@)]

\* list.append without the membership test of lines 243 and 265
AppendAlways(l, x) == Append(l, x)
\* list.append unless present, lines 243-244 and 265-266
AppendIfAbsent(l, x) == IF x \in ListToSet(l) THEN l ELSE Append(l, x)

\* queries, lines 285-299
IsConfluencePageExported(x) == Active /\ x \in current_state.confluence_pages_exported
IsJiraIssueExported(x) == Active /\ x \in current_state.jira_issues_exported
IsConfluenceSpaceComplete(g) ==
    Active /\ g \in ListToSet(current_state.confluence_spaces_completed)
IsJiraProjectComplete(g) ==
    Active /\ g \in ListToSet(current_state.jira_projects_completed)

\* save_checkpoint, lines 199-203, without the test of lines 202-203
WillWriteEveryCall(force) == TRUE
\* save_checkpoint, lines 199-203, without `not force`
WillWritePeriodic(force) == (save_counter + 1) % CheckpointInterval = 0
\* save_checkpoint, lines 199-203, without the periodic write
WillWriteForced(force) == force
\* save_checkpoint, lines 199-203: this call goes on to write
WillWrite(force) == force \/ (save_counter + 1) % CheckpointInterval = 0

\* save_checkpoint(force) entered by operation o with in-memory state s and
\* checkpoint file `file`,
\* lines 194-206; the write itself is OpenTmp, WriteTmp, Replace below
SaveCheckpoint(s, force, o, file) ==
    /\ save_counter' = save_counter + 1
    /\ op' = o
    /\ ioFailed' = FALSE
    /\ IF WillWrite(force)
       THEN /\ current_state' = s
            /\ cpc' = "open_tmp"
            /\ returned' = <<>>
       ELSE /\ current_state' = s
            /\ cpc' = "idle"
            /\ returned' = <<o[1], o[2], file>>

\* an operation is called on the manager
Called ==
    /\ cpc = "idle"
    /\ ckOps < MaxCkptOps
    /\ ckOps' = ckOps + 1

\* the operation returns at once: `if not self.current_state: return`
ReturnsInactive ==
    /\ returned' = <<>>
    /\ UNCHANGED <<disk, mtime, current_state, checkpoint_file, save_counter, cpc, op,
                   ioFailed, saved>>

Others == <<now, limiterVars, breakerVars, cacheVars, clientVars, sideVars>>

\* start_new_export, lines 86-113
StartNewExport(e) ==
    /\ Called
    /\ \A suf \in {"json", "tmp", "complete"} : ~Exists(WithSuffix(CkptFile(e), suf))
    /\ checkpoint_file # CkptFile(e)
    /\ checkpoint_file' = CkptFile(e)
    /\ SaveCheckpoint(NewState(e), FALSE, <<"start_new_export", e>>, CkptFile(e))
    /\ UNCHANGED <<disk, mtime, saved, Others>>

\* json.load and ExportState.from_dict of a file's contents, lines 126-129:
\* the exception they raise, "none" when they raise none
LoadError(c) ==
    CASE c.kind = "partial" -> "JSONDecodeError"
      [] c.kind = "json" /\ DOMAIN c.data # StateFields -> "TypeError"
      [] OTHER -> "none"
\* line 141, with `except OSError`
ResumeCatchesOSError(exc) == exc \in {"OSError"}
\* line 141: except Exception
ResumeCatches(exc) == exc \in {"JSONDecodeError", "TypeError", "OSError"}
\* how resume_export(ref) ends: "state", "none" or "raised"
ResumeOutcome(ref) ==
    IF ~Exists(ref) THEN "none"
    ELSE IF LoadError(disk[ref]) = "none" THEN "state"
    ELSE IF ResumeCatches(LoadError(disk[ref])) THEN "none"
    ELSE "raised"

\* resume_export, lines 115-143
ResumeExport(ref) ==
    /\ Called
    /\ IF ResumeOutcome(ref) = "state"
       THEN /\ current_state' = FromDict(disk[ref].data)
            /\ checkpoint_file' = ref
       ELSE UNCHANGED <<current_state, checkpoint_file>>
    /\ returned' = <<"resume_export", ref, ResumeOutcome(ref)>>
    /\ UNCHANGED <<disk, mtime, save_counter, cpc, op, ioFailed, saved, Others>>

\* update_confluence_progress, lines 226-236
UpdateConfluenceProgress(space_key, page_id) ==
    /\ Called
    /\ IF ~Active THEN ReturnsInactive
       ELSE /\ SaveCheckpoint(
                   [current_state EXCEPT
                       !.current_operation = "confluence",
                       !.confluence_pages_exported = @ \cup {page_id}],
                   FALSE, <<"update_confluence_progress", page_id>>, checkpoint_file)
            /\ UNCHANGED <<disk, mtime, checkpoint_file, saved>>
    /\ UNCHANGED Others

\* mark_confluence_space_complete, lines 238-246
MarkConfluenceSpaceComplete(space_key) ==
    /\ Called
    /\ IF ~Active THEN ReturnsInactive
       ELSE /\ SaveCheckpoint(
                   [current_state EXCEPT
                       !.confluence_spaces_completed = AppendIfAbsent(@, space_key)],
                   TRUE, <<"mark_confluence_space_complete", space_key>>, checkpoint_file)
            /\ UNCHANGED <<disk, mtime, checkpoint_file, saved>>
    /\ UNCHANGED Others

\* update_jira_progress, lines 248-258
UpdateJiraProgress(project_key, issue_key) ==
    /\ Called
    /\ IF ~Active THEN ReturnsInactive
       ELSE /\ SaveCheckpoint(
                   [current_state EXCEPT
                       !.current_operation = "jira",
                       !.jira_issues_exported = @ \cup {issue_key}],
                   FALSE, <<"update_jira_progress", issue_key>>, checkpoint_file)
            /\ UNCHANGED <<disk, mtime, checkpoint_file, saved>>
    /\ UNCHANGED Others

\* mark_jira_project_complete, lines 260-268
MarkJiraProjectComplete(project_key) ==
    /\ Called
    /\ IF ~Active THEN ReturnsInactive
       ELSE /\ SaveCheckpoint(
                   [current_state EXCEPT
                       !.jira_projects_completed = AppendIfAbsent(@, project_key)],
                   TRUE, <<"mark_jira_project_complete", project_key>>, checkpoint_file)
            /\ UNCHANGED <<disk, mtime, checkpoint_file, saved>>
    /\ UNCHANGED Others

\* the entry record_error appends, lines 275-280
ErrorEntry(error_type) == [type |-> error_type, timestamp |-> now]

\* record_error, lines 270-283
RecordError(error_type) ==
    /\ Called
    /\ IF ~Active THEN ReturnsInactive
       ELSE /\ SaveCheckpoint(
                   [current_state EXCEPT
                       !.errors_encountered = Append(@, ErrorEntry(error_type))],
                   TRUE, <<"record_error", ErrorEntry(error_type)>>, checkpoint_file)
            /\ UNCHANGED <<disk, mtime, checkpoint_file, saved>>
    /\ UNCHANGED Others

\* complete_export, lines 315-321; the marker is written by OpenMarker and
\* WriteMarker once the save is over
CompleteExport ==
    /\ Called
    /\ IF ~Active THEN ReturnsInactive
       ELSE /\ SaveCheckpoint([current_state EXCEPT !.current_operation = PyNone],
                              TRUE, <<"complete_export", PyNone>>, checkpoint_file)
            /\ UNCHANGED <<disk, mtime, checkpoint_file, saved>>
    /\ UNCHANGED Others

\* save_checkpoint is over, lines 216-224: back in the operation that called it
AfterSave ==
    IF op[1] = "complete_export"
    THEN cpc' = "open_marker" /\ returned' = <<>>
    ELSE cpc' = "idle" /\ returned' = <<op[1], op[2], checkpoint_file>>

TempFile == WithSuffix(checkpoint_file, "tmp")

\* save_checkpoint, lines 209-210: open(temp_file, 'w') creates or truncates it
OpenTmp ==
    /\ cpc = "open_tmp"
    /\ disk' = [disk EXCEPT ![TempFile] = PartialText]
    /\ mtime' = [mtime EXCEPT ![TempFile] = now]
    /\ cpc' = "write_tmp"
    /\ UNCHANGED <<current_state, checkpoint_file, save_counter, op, returned,
                   ioFailed, saved, ckOps, Others, orchVars>>

\* save_checkpoint, line 211: json.dump writes the serialization and the file is closed
WriteTmp ==
    /\ cpc = "write_tmp"
    /\ disk' = [disk EXCEPT ![TempFile] = JsonText(ToDict(current_state))]
    /\ mtime' = [mtime EXCEPT ![TempFile] = now]
    /\ saved' = saved \cup {current_state}
    /\ cpc' = "replace"
    /\ UNCHANGED <<current_state, checkpoint_file, save_counter, op, returned,
                   ioFailed, ckOps, Others, orchVars>>

\* temp_file.replace(checkpoint_file) done in place: the checkpoint file is
\* opened for writing instead
ReplaceInPlace == [disk EXCEPT ![checkpoint_file] = PartialText, ![TempFile] = Absent]
\* save_checkpoint, line 214: temp_file.replace(self.checkpoint_file)
ReplaceAtomic == [disk EXCEPT ![checkpoint_file] = disk[TempFile], ![TempFile] = Absent]

Replace ==
    /\ cpc = "replace"
    /\ disk' = ReplaceAtomic
    /\ mtime' = [mtime EXCEPT ![checkpoint_file] = mtime[TempFile], ![TempFile] = NoneVal]
    /\ AfterSave
    /\ UNCHANGED <<current_state, checkpoint_file, save_counter, op,
                   ioFailed, saved, ckOps, Others, orchVars>>

\* save_checkpoint, lines 223-224: a step of the write raises and the
\* exception is logged
SaveFails ==
    /\ cpc \in {"open_tmp", "write_tmp", "replace"}
    /\ ckOps < MaxCkptOps
    /\ ckOps' = ckOps + 1
    /\ ioFailed' = TRUE
    /\ AfterSave
    /\ UNCHANGED <<disk, mtime, current_state, checkpoint_file, save_counter, op,
                   saved, Others, orchVars>>

CompletionFile == WithSuffix(checkpoint_file, "complete")
\* complete_export, lines 325-331, with the counts read from the state's
\* total_confluence_pages and total_jira_issues (fields no operation updates)
CompletionDataFromTotals ==
    [export_id |-> current_state.export_id,
     total_confluence_pages |-> 0,
     total_jira_issues |-> 0,
     errors_count |-> Len(current_state.errors_encountered)]
\* complete_export, lines 325-331
CompletionData ==
    [export_id |-> current_state.export_id,
     total_confluence_pages |-> Cardinality(current_state.confluence_pages_exported),
     total_jira_issues |-> Cardinality(current_state.jira_issues_exported),
     errors_count |-> Len(current_state.errors_encountered)]

\* complete_export, line 333: open(completion_file, 'w')
OpenMarker ==
    /\ cpc = "open_marker"
    /\ disk' = [disk EXCEPT ![CompletionFile] = PartialText]
    /\ mtime' = [mtime EXCEPT ![CompletionFile] = now]
    /\ cpc' = "write_marker"
    /\ UNCHANGED <<current_state, checkpoint_file, save_counter, op, returned,
                   ioFailed, saved, ckOps, Others, orchVars>>

\* complete_export, lines 334-342: the marker is written and the call returns
WriteMarker ==
    /\ cpc = "write_marker"
    /\ disk' = [disk EXCEPT ![CompletionFile] = JsonText(CompletionData)]
    /\ mtime' = [mtime EXCEPT ![CompletionFile] = now]
    /\ cpc' = "idle"
    /\ returned' = <<op[1], op[2], checkpoint_file>>
    /\ UNCHANGED <<current_state, checkpoint_file, save_counter, op,
                   ioFailed, saved, ckOps, Others, orchVars>>

\* cleanup_old_checkpoints, lines 350-353: this checkpoint is deleted
\* (without the marker test)
DeletesAnyOld(path, days_to_keep) ==
    /\ Exists(path)
    /\ mtime[path] < now - days_to_keep
DeletesOld(path, days_to_keep) ==
    /\ Exists(path)
    /\ mtime[path] < now - days_to_keep
    /\ Exists(WithSuffix(path, "complete"))

\* cleanup_old_checkpoints, lines 344-358
CleanupOldCheckpoints(days_to_keep) ==
    /\ Called
    /\ LET gone == {path \in GlobCheckpoints : DeletesOld(path, days_to_keep)}
           unlinked == gone \cup {WithSuffix(path, "complete") : path \in gone}
       IN /\ disk' = [f \in Files |-> IF f \in unlinked THEN Absent ELSE disk[f]]
          /\ mtime' = [f \in Files |-> IF f \in unlinked THEN NoneVal ELSE mtime[f]]
    /\ returned' = <<"cleanup_old_checkpoints", days_to_keep, NoPath>>
    /\ UNCHANGED <<current_state, checkpoint_file, save_counter, cpc, op,
                   ioFailed, saved, Others>>

\* the process is killed and a new one constructs its manager, lines 71-78;
\* the files stay as they are
Crash ==
    /\ ckOps < MaxCkptOps
    /\ Active \/ cpc # "idle"
    /\ ckOps' = ckOps + 1
    /\ current_state' = NoState
    /\ checkpoint_file' = NoPath
    /\ save_counter' = 0
    /\ cpc' = "idle"
    /\ op' = <<>>
    /\ returned' = IF cpc = "idle" THEN returned ELSE <<>>
    /\ UNCHANGED <<disk, mtime, ioFailed, saved, Others>>

(* ========================== ContextExporterV2 ========================== *)
\* the run starts over: nothing enumerated yet
NothingEnumerated ==
    /\ group' = PyNone
    /\ todo' = <<>>
    /\ enumeratedPages' = [g \in SpaceKeys |-> {}]
    /\ enumeratedIssues' = [g \in ProjectKeys |-> {}]

\* __init__, lines 84-88: a new export
ExporterStart(e) ==
    /\ opc = "init"
    /\ StartNewExport(e)
    /\ opc' = "confluence"
    /\ NothingEnumerated

\* __init__, lines 79-83: --resume; a failed resume raises ValueError
ExporterResume(ref) ==
    /\ opc = "init"
    /\ ResumeExport(ref)
    /\ opc' = IF ResumeOutcome(ref) = "state" THEN "confluence" ELSE "done"
    /\ NothingEnumerated

\* _process_confluence_results, lines 310-320: the pages of space g the
\* search keeps out of those it found
PagesKept(g, found) ==
    IF IsConfluenceSpaceComplete(g) THEN {}
    ELSE {x \in found : ~IsConfluencePageExported(x)}

\* what the Confluence search for the label finds, in the order the server
\* lists it; the pages belong to one space
ConfluenceLabelled == <<"p1", "p2", "p3">>
ConfluenceBatchSize == 1   \* config.batch.confluence_batch_size of the modelled exporter

\* search_confluence_spaces, lines 251-289: the while loop from `start` on,
\* with all_results fetched so far and the offsets requested so far; it
\* yields the pages fetched and the offsets requested
RECURSIVE SearchConfluenceLoop(_, _, _)
SearchConfluenceLoop(start, all_results, offsets) ==
    LET already_exported ==
            Len(SelectSeq(all_results, LAMBDA x : IsConfluencePageExported(x)))
    IN  IF Active /\ already_exported >= Len(all_results) /\ Len(all_results) >= start
        THEN SearchConfluenceLoop(start + ConfluenceBatchSize, all_results, offsets)
        ELSE LET batch == SubSeq(ConfluenceLabelled, start + 1,
                                 Min(start + ConfluenceBatchSize, Len(ConfluenceLabelled)))
             IN IF batch = <<>>
                THEN [pages |-> all_results, offsets |-> Append(offsets, start)]
                ELSE IF Len(batch) < ConfluenceBatchSize
                THEN [pages |-> all_results \o batch, offsets |-> Append(offsets, start)]
                ELSE SearchConfluenceLoop(start + ConfluenceBatchSize, all_results \o batch,
                                          Append(offsets, start))

\* search_confluence_spaces, lines 244-292
SearchConfluenceSpaces == SearchConfluenceLoop(0, <<>>, <<>>)

\* export_confluence_content, lines 623-637, with search_confluence_spaces:
\* the search returns space g with the pages it fetched; a space without
\* pages, or already complete, is passed over
SearchConfluence(g) ==
    /\ opc = "confluence"
    /\ cpc = "idle"
    /\ searchOffsets' = SearchConfluenceSpaces.offsets
    /\ LET found == ListToSet(SearchConfluenceSpaces.pages)
       IN IF PagesKept(g, found) = {}
          THEN /\ opc' = "jira"
               /\ UNCHANGED <<group, todo, enumeratedPages>>
          ELSE /\ opc' = "pages"
               /\ group' = g
               /\ todo' = SetToList(PagesKept(g, found))
               /\ enumeratedPages' = [enumeratedPages EXCEPT ![g] = PagesKept(g, found)]
    /\ UNCHANGED <<managerVars, enumeratedIssues, now, limiterVars, breakerVars, cacheVars,
                   clientVars, backoff, callTimes>>

\* run_export, lines 803-807: Confluence was not selected for this run
ConfluenceNotSelected ==
    /\ opc = "confluence"
    /\ cpc = "idle"
    /\ opc' = "jira"
    /\ UNCHANGED <<group, todo, enumeratedPages, enumeratedIssues, managerVars, Others>>

\* export_confluence_content, lines 645-680: the next page is exported and
\* reported to the manager (or passed over, being exported already)
ExportPage ==
    /\ opc = "pages"
    /\ todo # <<>>
    /\ cpc = "idle"
    /\ IF IsConfluencePageExported(Head(todo))
       THEN UNCHANGED <<managerVars, Others>>
       ELSE UpdateConfluenceProgress(group, Head(todo))
    /\ todo' = Tail(todo)
    /\ UNCHANGED <<opc, group, enumeratedPages, enumeratedIssues>>

\* export_confluence_content, lines 652-655: get_confluence_page_content
\* returned nothing (the request failed, or the page has no body)
PageContentMissing ==
    /\ opc = "pages"
    /\ todo # <<>>
    /\ cpc = "idle"
    /\ ~IsConfluencePageExported(Head(todo))
    /\ todo' = Tail(todo)
    /\ UNCHANGED <<opc, group, enumeratedPages, enumeratedIssues, managerVars, Others>>

\* export_confluence_content, lines 682-688: the loop over the pages is over
SpaceComplete ==
    /\ opc = "pages"
    /\ todo = <<>>
    /\ MarkConfluenceSpaceComplete(group)
    /\ opc' = "jira"
    /\ UNCHANGED <<group, todo, enumeratedPages, enumeratedIssues>>

\* what the Jira search for the label finds, in the order the server lists
\* it; the issues belong to one project
JiraLabelled == <<"i1", "i2", "i3">>

\* search_jira_projects, lines 468-498: the while loop from start_at on, with
\* the state's current_batch_start at `cursor` and all_issues fetched so far;
\* it yields the issues fetched and the cursor left in the state
RECURSIVE SearchJiraLoop(_, _, _)
SearchJiraLoop(start_at, cursor, all_issues) ==
    IF start_at < cursor
    THEN SearchJiraLoop(start_at + JiraBatchSize, cursor, all_issues)
    ELSE LET batch == SubSeq(JiraLabelled, start_at + 1,
                             Min(start_at + JiraBatchSize, Len(JiraLabelled)))
         IN IF batch = <<>>
            THEN [issues |-> all_issues, cursor |-> cursor]
            ELSE IF Len(batch) < JiraBatchSize
            THEN [issues |-> all_issues \o batch, cursor |-> start_at]
            ELSE SearchJiraLoop(start_at + JiraBatchSize, start_at, all_issues \o batch)

\* search_jira_projects, lines 461-498, on the active state
SearchJiraProjects == SearchJiraLoop(0, current_state.current_batch_start, <<>>)

\* _process_jira_results, lines 535-545: the issues of project g the search
\* keeps out of those it fetched, in their order
IssuesKept(g, found) ==
    IF IsJiraProjectComplete(g) THEN <<>>
    ELSE SelectSeq(found, LAMBDA x : ~IsJiraIssueExported(x))

\* export_jira_content, lines 703-718, with search_jira_projects: the search
\* leaves its cursor in the in-memory state
SearchJira(g) ==
    /\ opc = "jira"
    /\ cpc = "idle"
    /\ Active
    /\ current_state' = [current_state EXCEPT
                            !.current_batch_start = SearchJiraProjects.cursor]
    /\ IF IssuesKept(g, SearchJiraProjects.issues) = <<>>
       THEN /\ opc' = "complete"
            /\ UNCHANGED <<group, todo, enumeratedIssues>>
       ELSE /\ opc' = "issues"
            /\ group' = g
            /\ todo' = IssuesKept(g, SearchJiraProjects.issues)
            /\ enumeratedIssues' = [enumeratedIssues EXCEPT
                                      ![g] = ListToSet(IssuesKept(g, SearchJiraProjects.issues))]
    /\ UNCHANGED <<disk, mtime, checkpoint_file, save_counter, cpc, op, returned, ioFailed,
                   saved, ckOps, enumeratedPages, Others>>

\* run_export, lines 809-813: Jira was not selected for this run
JiraNotSelected ==
    /\ opc = "jira"
    /\ cpc = "idle"
    /\ opc' = "complete"
    /\ UNCHANGED <<group, todo, enumeratedPages, enumeratedIssues, managerVars, Others>>

\* export_jira_content, lines 725-754
ExportIssue ==
    /\ opc = "issues"
    /\ todo # <<>>
    /\ cpc = "idle"
    /\ IF IsJiraIssueExported(Head(todo))
       THEN UNCHANGED <<managerVars, Others>>
       ELSE UpdateJiraProgress(group, Head(todo))
    /\ todo' = Tail(todo)
    /\ UNCHANGED <<opc, group, enumeratedPages, enumeratedIssues>>

\* export_jira_content, lines 756-762
ProjectComplete ==
    /\ opc = "issues"
    /\ todo = <<>>
    /\ MarkJiraProjectComplete(group)
    /\ opc' = "complete"
    /\ UNCHANGED <<group, todo, enumeratedPages, enumeratedIssues>>

\* run_export, lines 815-816
FinishExport ==
    /\ opc = "complete"
    /\ CompleteExport
    /\ opc' = "done"
    /\ UNCHANGED <<group, todo, enumeratedPages, enumeratedIssues>>

\* the process is killed; the next one constructs its exporter anew
ProcessKilled ==
    /\ Crash
    /\ opc' = "init"
    /\ NothingEnumerated

(* ============================ specifications =========================== *)
InitLimiter ==
    /\ tokens = max_tokens
    /\ last_refill = now
    /\ lastWait = NoneVal
    /\ zeroWaits = 0
    /\ burstRun = 0
    /\ lastAsk = <<>>

InitBreaker ==
    /\ state = CLOSED
    /\ failure_count = 0
    /\ last_failure_time = NoneVal
    /\ pc = [t \in Threads |-> "idle"]
    /\ result = [t \in Threads |-> "none"]
    /\ probe = {}
    /\ consecFails = 0

\* RequestCache.__init__ over an empty directory
InitCache ==
    /\ cache_index = <<>>
    /\ cache_files = [k \in AllKeys |-> NoFile]
    /\ index_file = NoFile
    /\ index_kind = "none"
    /\ stored = [k \in AllKeys |-> NoStored]
    /\ everSet = {}
    /\ lastSet = <<>>
    /\ lastGet = <<>>
    /\ run = <<>>
    /\ cacheOps = 0

\* ResilientAPIClient.__init__, lines 201-219
InitClient ==
    /\ rpc = "idle"
    /\ req = <<>>
    /\ use_cache = FALSE
    /\ attempt = 0
    /\ wake = 0
    /\ log = <<>>
    /\ sleeps = 0
    /\ outcome = "none"
    /\ body = PyNone
    /\ reqCount = 0
    /\ acquires = 0
    /\ prevOk = <<>>

\* the paths resume_export is given: checkpoint files and markers
ResumeRefs == GlobCheckpoints \cup {WithSuffix(path, "complete") : path \in GlobCheckpoints}

\* CheckpointManager.__init__, lines 71-78, over an empty directory
InitManager ==
    /\ disk = [f \in Files |-> Absent]
    /\ mtime = [f \in Files |-> NoneVal]
    /\ current_state = NoState
    /\ checkpoint_file = NoPath
    /\ save_counter = 0
    /\ cpc = "idle"
    /\ op = <<>>
    /\ returned = <<>>
    /\ ioFailed = FALSE
    /\ saved = {}
    /\ ckOps = 0

\* ContextExporterV2 before its constructor has run
InitExporter ==
    /\ opc = "init"
    /\ group = PyNone
    /\ todo = <<>>
    /\ enumeratedPages = [g \in SpaceKeys |-> {}]
    /\ enumeratedIssues = [g \in ProjectKeys |-> {}]

InitSide ==
    /\ backoff = <<>>
    /\ callTimes = <<>>
    /\ searchOffsets = <<>>

InitComponents(threshold, size, retries, caching) ==
    /\ now = 1
    /\ InitSide
    /\ failure_threshold = threshold
    /\ max_size = size
    /\ max_retries = retries
    /\ cache_enabled = caching
    /\ InitLimiter
    /\ InitBreaker
    /\ InitCache
    /\ InitClient

\* The objects as constructed, under the given configuration
InitWith(threshold, size, retries, caching) ==
    /\ InitComponents(threshold, size, retries, caching)
    /\ InitManager
    /\ InitExporter

InitCheckpointSpec ==
    /\ InitComponents(MaxThreshold, MaxSize, MaxRetries, TRUE)
    /\ InitManager
    /\ InitExporter
InitLimiterSpec == InitWith(MaxThreshold, MaxSize, MaxRetries, TRUE)
InitBreakerSpec == \E n \in 1..MaxThreshold : InitWith(n, MaxSize, MaxRetries, TRUE)
InitCacheSpec == \E m \in 0..MaxSize : InitWith(MaxThreshold, m, MaxRetries, TRUE)
Init ==
    \E n \in 1..MaxThreshold, k \in 0..MaxRetries, c \in BOOLEAN :
        InitWith(n, MaxSize, k, c)

NextLimiter ==
    \/ Tick
    \/ LimiterAcquire

NextBreaker ==
    \/ Tick
    \/ \E t \in Threads : CallEnter(t)
    \/ \E t \in Threads : CallReturn(t)
    \/ \E t \in Threads : CallRaise(t)

NextCache ==
    \/ Tick
    \/ GetCall
    \/ SetCall
    \/ SetCallRaises

\* the cache with its process killed while it saves the index
NextCacheCrash ==
    \/ NextCache
    \/ \E step \in SaveIndexSteps : SetCallKilled(step)

Next ==
    \/ Tick
    \/ \E r \in ClientRequests, uc \in BOOLEAN : RequestStart(r, uc)
    \/ RequestAcquire
    \/ RateSleepDone
    \/ RequestAttempt
    \/ \E b \in HttpBodies : HttpSuccess(b)
    \/ \E st \in HttpStatuses \ {200} : HttpFailure(st)
    \/ BackoffDone

\* the client over a cache directory whose files can fail
NextFaults ==
    \/ Next
    \/ \E r \in ClientRequests, uc \in BOOLEAN : RequestStartPayloadUnreadable(r, uc)
    \/ \E r \in ClientRequests, uc \in BOOLEAN : RequestStartIndexUnwritable(r, uc)
    \/ \E b \in HttpBodies, point \in SetFailurePoints : HttpSuccessSetFails(b, point)

NextCheckpoint ==
    \/ DayPasses
    \/ \E e \in ExportIds : StartNewExport(e) /\ UNCHANGED orchVars
    \/ \E ref \in ResumeRefs : ResumeExport(ref) /\ UNCHANGED orchVars
    \/ \E g \in SpaceKeys, x \in PageIds :
            UpdateConfluenceProgress(g, x) /\ UNCHANGED orchVars
    \/ \E g \in SpaceKeys : MarkConfluenceSpaceComplete(g) /\ UNCHANGED orchVars
    \/ \E g \in ProjectKeys, x \in IssueKeys :
            UpdateJiraProgress(g, x) /\ UNCHANGED orchVars
    \/ \E g \in ProjectKeys : MarkJiraProjectComplete(g) /\ UNCHANGED orchVars
    \/ \E t \in ErrorTypes : RecordError(t) /\ UNCHANGED orchVars
    \/ CompleteExport /\ UNCHANGED orchVars
    \/ \E d \in 0..MaxKeep : CleanupOldCheckpoints(d) /\ UNCHANGED orchVars
    \/ OpenTmp
    \/ WriteTmp
    \/ Replace
    \/ SaveFails
    \/ OpenMarker
    \/ WriteMarker
    \/ Crash /\ UNCHANGED orchVars

\* the manager on a file system whose writes never fail
NextCheckpointNoFault ==
    \/ DayPasses
    \/ \E e \in ExportIds : StartNewExport(e) /\ UNCHANGED orchVars
    \/ \E ref \in ResumeRefs : ResumeExport(ref) /\ UNCHANGED orchVars
    \/ \E g \in SpaceKeys, x \in PageIds :
            UpdateConfluenceProgress(g, x) /\ UNCHANGED orchVars
    \/ \E g \in SpaceKeys : MarkConfluenceSpaceComplete(g) /\ UNCHANGED orchVars
    \/ \E g \in ProjectKeys, x \in IssueKeys :
            UpdateJiraProgress(g, x) /\ UNCHANGED orchVars
    \/ \E g \in ProjectKeys : MarkJiraProjectComplete(g) /\ UNCHANGED orchVars
    \/ \E t \in ErrorTypes : RecordError(t) /\ UNCHANGED orchVars
    \/ CompleteExport /\ UNCHANGED orchVars
    \/ \E d \in 0..MaxKeep : CleanupOldCheckpoints(d) /\ UNCHANGED orchVars
    \/ OpenTmp
    \/ WriteTmp
    \/ Replace
    \/ OpenMarker
    \/ WriteMarker
    \/ Crash /\ UNCHANGED orchVars

NextExport ==
    \/ DayPasses
    \/ \E e \in ExportIds : ExporterStart(e)
    \/ \E ref \in GlobCheckpoints : ExporterResume(ref)
    \/ \E g \in SpaceKeys : SearchConfluence(g)
    \/ ConfluenceNotSelected
    \/ ExportPage
    \/ PageContentMissing
    \/ SpaceComplete
    \/ \E g \in ProjectKeys : SearchJira(g)
    \/ JiraNotSelected
    \/ ExportIssue
    \/ ProjectComplete
    \/ FinishExport
    \/ OpenTmp
    \/ WriteTmp
    \/ Replace
    \/ SaveFails
    \/ OpenMarker
    \/ WriteMarker
    \/ ProcessKilled

Spec == Init /\ [][Next]_vars
SpecFaults == Init /\ [][NextFaults]_vars
SpecCheckpoint == InitCheckpointSpec /\ [][NextCheckpoint]_vars
SpecCheckpointNoFault == InitCheckpointSpec /\ [][NextCheckpointNoFault]_vars
SpecExport == InitCheckpointSpec /\ [][NextExport]_vars
SpecLimiter == InitLimiterSpec /\ [][NextLimiter]_vars
SpecBreaker == InitBreakerSpec /\ [][NextBreaker]_vars
SpecCache == InitCacheSpec /\ [][NextCache]_vars
SpecCacheCrash == InitCacheSpec /\ [][NextCacheCrash]_vars

\* request() calls that all miss the cache and succeed on their first attempt
NextRate ==
    \/ Tick
    \/ RateLimitedRequest
    \/ RateLimitedWake

SpecRate == InitLimiterSpec /\ [][NextRate]_vars

\* _calculate_backoff applied to every configuration, attempt and draw
NextBackoff ==
    \E initial_delay \in 1..BackoffMaxInitial, exponential_base \in 1..BackoffMaxBase,
       max_delay \in 1..BackoffMaxCap, jitter \in BOOLEAN,
       a \in 0..BackoffMaxAttempt, rnd \in 0..(RandomSteps - 1) :
        CalculateBackoffCall(initial_delay, exponential_base, max_delay, jitter, a, rnd)

\* the client is constructed with ExporterConfig's defaults; no call was made
InitBackoffSpec == InitWith(MaxThreshold, MaxSize, MaxRetries, TRUE)
SpecBackoff == InitBackoffSpec /\ [][NextBackoff]_vars

(* ============================== properties ============================= *)

\* C1: with failure_threshold = N, from CLOSED with failure_count 0, once N
\* calls in a row have had their wrapped function raise (and no call is in
\* flight) the state is OPEN; a call made while OPEN before recovery_timeout
\* has elapsed since last_failure_time does not invoke the wrapped function
\* and ends with the circuit-open error.
C1_OpenAfterN ==
    (consecFails >= failure_threshold /\ \A t \in Threads : pc[t] = "idle")
        => state = OPEN
C1_RejectStep ==
    \A t \in Threads :
        (pc[t] = "idle" /\ state = OPEN
            /\ now - last_failure_time < RecoveryTimeout)
        => (pc'[t] = "idle" /\ result'[t] \in {result[t], "circuit_open"})
C1_BreakerOpensAtThreshold == [] C1_OpenAfterN /\ [][C1_RejectStep]_vars
C1_Witness ==
    /\ state = OPEN
    /\ consecFails = failure_threshold
    /\ failure_threshold = MaxThreshold
    /\ \E t \in Threads : result[t] = "circuit_open"

\* C2: when the breaker is OPEN and at least recovery_timeout has elapsed
\* since last_failure_time, a call is admitted: the wrapped function is
\* invoked and the state is HALF_OPEN as it starts; when that call's
\* function returns, the state becomes CLOSED and failure_count 0.
C2_ProbeStep ==
    \A t \in Threads :
        /\ (/\ pc[t] = "idle" /\ state = OPEN
            /\ now - last_failure_time >= RecoveryTimeout
            /\ (pc'[t] # pc[t] \/ result'[t] # result[t]))
           => (pc'[t] = "invoking" /\ state' = HALF_OPEN)
        /\ (t \in probe /\ pc[t] = "invoking" /\ result'[t] = "ok")
           => (state' = CLOSED /\ failure_count' = 0)
C2_BreakerRecovers == [][C2_ProbeStep]_vars
C2_Witness ==
    \E t \in Threads :
        t \in probe /\ result[t] = "ok" /\ state = CLOSED /\ failure_count = 0

\* C3: between acquire() calls (the lock is free between the model's
\* steps), 0 <= tokens <= max_tokens.
C3_TokenBounds == 0 <= tokens /\ tokens <= max_tokens
C3_Witness == lastWait > 0 /\ tokens < TokenScale /\ now > last_refill

Finished == rpc = "idle" /\ reqCount > 0
Raised == Finished /\ outcome \in {"http_error", "circuit_open"}
AllRetryable == log # <<>> /\ \A i \in 1..Len(log) : log[i] \in RetryOnStatusCodes

\* C4 (as amended): a request() whose every underlying call fails with a
\* retryable status, and none of whose attempts the circuit breaker rejects,
\* makes exactly max_retries + 1 underlying call attempts before it raises;
\* when the breaker rejects an attempt the request raises the circuit-open
\* error at once, after at most max_retries attempts.
C4_RetryExhaustion ==
    (Raised /\ AllRetryable) =>
        IF outcome = "circuit_open"
        THEN Len(log) <= max_retries /\ sleeps = Len(log)
        ELSE Len(log) = max_retries + 1 /\ sleeps = max_retries
C4_Witness ==
    /\ Raised /\ AllRetryable /\ outcome = "http_error"
    /\ max_retries = MaxRetries /\ Len(log) = MaxRetries + 1

\* C4 as stated: for every breaker configuration and state, a request() whose
\* every underlying call fails with a retryable status makes exactly
\* max_retries + 1 underlying call attempts before the executor raises.
C4_Original == (Raised /\ AllRetryable) => Len(log) = max_retries + 1

\* C5: a request() whose underlying call fails with a status that is not in
\* retry_on_status_codes makes exactly 1 underlying call attempt and raises
\* that error with no backoff sleep, for every max_retries (0 included): the
\* failing call is the request's last, and when it is the first the request
\* ends with one attempt and no sleep.
C5_NonRetryable ==
    \A i \in 1..Len(log) :
        (log[i] # NoneVal /\ log[i] # 200 /\ log[i] \notin RetryOnStatusCodes) =>
            /\ i = Len(log)
            /\ rpc = "idle" /\ outcome = "http_error"
            /\ sleeps = i - 1
C5_Witness ==
    /\ log = <<404>> /\ rpc = "idle" /\ outcome = "http_error" /\ sleeps = 0
    /\ max_retries = MaxRetries

\* C6: when an attempt of request() reaches the breaker while it is OPEN and
\* recovery_timeout has not elapsed, no underlying HTTP call is made and the
\* request ends at once with the circuit-open error: no retry, no backoff
\* sleep; also when the breaker opened during this request's retry loop.
C6_OpenStep ==
    (/\ rpc = "attempt" /\ state = OPEN
     /\ now - last_failure_time < RecoveryTimeout
     /\ rpc' # rpc)
    => /\ rpc' = "idle" /\ outcome' = "circuit_open"
       /\ log' = log /\ sleeps' = sleeps /\ attempt' = attempt
C6_CircuitOpenSurfaces == [][C6_OpenStep]_vars
C6_Witness ==
    /\ Finished /\ outcome = "circuit_open"
    /\ Len(log) >= 1 /\ Len(log) <= max_retries
    /\ reqCount = 1

\* C7 as stated: request('GET', url, use_cache=True) with caching enabled and
\* an unexpired cache entry for (method, url, params) returns a 200 response
\* carrying the cached payload, makes no underlying HTTP call, and leaves the
\* limiter's tokens and the breaker's state and failure_count unchanged.
C7_StartsOnEntry ==
    /\ rpc = "idle" /\ reqCount' = reqCount + 1
    /\ req'[1] = "GET" /\ use_cache' /\ cache_enabled
    /\ InIndex(cache_index, KeyOf(req'))
    /\ now - TimestampOf(cache_index, KeyOf(req')) < Ttl
C7_HitEffect ==
    /\ rpc' = "idle" /\ outcome' = "cached"
    /\ body' = stored[KeyOf(req')].payload
    /\ log' = <<>>
    /\ tokens' = tokens /\ last_refill' = last_refill
    /\ state' = state /\ failure_count' = failure_count
C7_Original == [][C7_StartsOnEntry => C7_HitEffect]_vars

\* What holds of the code: the same, for an entry whose payload is not null.
C7_NonNullHit ==
    [][(C7_StartsOnEntry /\ stored[KeyOf(req')].payload # PyNone) => C7_HitEffect]_vars

\* params as the request sends them: None and {} both mean no parameters
CanonParams(p) == IF p = ParamsNone \/ p = ParamsEmpty THEN "" ELSE p

\* C8 (as amended): set(m, u, v, p) followed, before ttl elapses and with no
\* intervening set, by get(m, u, p) returns v; get(m, u, p') returns absent
\* for a p' that was never set and differs from p as a request's parameters
\* (None and {} are the same parameters).
C8_CacheRoundTrip ==
    (lastSet # <<>> /\ now - stored[KeyOf(lastSet)].at < Ttl) =>
        /\ GetReturn(CacheKey(lastSet[1], lastSet[2], lastSet[3]))
              = stored[KeyOf(lastSet)].payload
        /\ \A p \in ParamsSet :
              (/\ CanonParams(p) # CanonParams(lastSet[3])
               /\ <<lastSet[1], lastSet[2], p>> \notin everSet
               /\ \A q \in ParamsSet : CanonParams(q) = CanonParams(p)
                                        => <<lastSet[1], lastSet[2], q>> \notin everSet)
              => GetReturn(CacheKey(lastSet[1], lastSet[2], p)) = PyNone
C8_Witness ==
    /\ lastSet # <<>> /\ lastGet # <<>>
    /\ lastGet[1] = lastSet
    /\ lastGet[2] = stored[KeyOf(lastSet)].payload
    /\ lastGet[2] # PyNone
    /\ \E p \in ParamsSet : p # lastSet[3] /\ <<lastSet[1], lastSet[2], p>> \notin everSet

\* C8 as stated: ... get(m, u, p') for any p' different from p that was never
\* set returns absent.
C8_Original ==
    (lastSet # <<>> /\ now - stored[KeyOf(lastSet)].at < Ttl) =>
        /\ GetReturn(CacheKey(lastSet[1], lastSet[2], lastSet[3]))
              = stored[KeyOf(lastSet)].payload
        /\ \A p \in ParamsSet :
              (p # lastSet[3] /\ <<lastSet[1], lastSet[2], p>> \notin everSet)
              => GetReturn(CacheKey(lastSet[1], lastSet[2], p)) = PyNone

\* C9: an entry stored at t0 and not evicted for capacity is returned by a
\* get at any time t with t - t0 < ttl, and a get at any time t with
\* t - t0 >= ttl returns absent.
C9_CacheExpiration ==
    \A k \in AllKeys :
        stored[k].at # NoneVal =>
            /\ now - stored[k].at < Ttl => GetReturn(k) = stored[k].payload
            /\ now - stored[k].at >= Ttl => GetReturn(k) = PyNone
C9_Witness ==
    /\ lastGet # <<>>
    /\ lastGet[2] = PyNone
    /\ stored[KeyOf(lastGet[1])].at # NoneVal
    /\ stored[KeyOf(lastGet[1])].payload # PyNone
    /\ now - stored[KeyOf(lastGet[1])].at = Ttl
    /\ ~InIndex(cache_index, KeyOf(lastGet[1]))

\* C10: from an empty cache with max_size = M, after set() of M + 1 distinct
\* keys at strictly increasing times, get of the first key returns absent and
\* get of each other key, while within ttl, returns its payload.
C10_CacheEviction ==
    (run # <<"broken">> /\ Len(run) = max_size + 1) =>
        /\ GetReturn(run[1]) = PyNone
        /\ \A i \in 2..Len(run) :
              now - stored[run[i]].at < Ttl => GetReturn(run[i]) = stored[run[i]].payload
C10_Witness ==
    /\ run # <<"broken">> /\ Len(run) = max_size + 1 /\ max_size = MaxSize
    /\ \A i \in 2..Len(run) :
          now - stored[run[i]].at < Ttl /\ stored[run[i]].payload # PyNone
    /\ ~InIndex(cache_index, run[1]) /\ cache_files[run[1]] = NoFile

\* the operation named `name` has returned and no other has started since
Returned(name) == cpc = "idle" /\ returned # <<>> /\ returned[1] = name
\* the file at `path` holds the serialization of a whole ExportState
HoldsState(path) == disk[path].kind = "json" /\ DOMAIN disk[path].data = StateFields

\* C11: once mark_confluence_space_complete(G), mark_jira_project_complete(G)
\* or record_error(...) has returned on an active manager without I/O
\* failure, the checkpoint file on disk holds G in the corresponding
\* completed list (the new error record in the error list), whatever the
\* save counter was, also after a crash right after the return.
C11_ForcedSaveDurable ==
    /\ (Returned("mark_confluence_space_complete") /\ ~ioFailed)
        => /\ HoldsState(returned[3])
           /\ returned[2] \in ListToSet(disk[returned[3]].data.confluence_spaces_completed)
    /\ (Returned("mark_jira_project_complete") /\ ~ioFailed)
        => /\ HoldsState(returned[3])
           /\ returned[2] \in ListToSet(disk[returned[3]].data.jira_projects_completed)
    /\ (Returned("record_error") /\ ~ioFailed)
        => /\ HoldsState(returned[3])
           /\ returned[2] \in ListToSet(disk[returned[3]].data.errors_encountered)
C11_Witness ==
    /\ Returned("mark_confluence_space_complete")
    /\ ~ioFailed
    /\ ~Active
    /\ returned[2] \in ListToSet(disk[returned[3]].data.confluence_spaces_completed)
    /\ disk[returned[3]].data.confluence_pages_exported # <<>>

\* C12: after a durable save of an active state S, resume_export of that
\* file yields a state whose two exported-ID sets and two completed-group
\* lists equal those of S, so is_confluence_page_exported(X) and
\* is_jira_issue_exported(X) are true exactly for the X in S's exported sets.
C12_SameProgress(S) ==
    /\ current_state.confluence_pages_exported = S.confluence_pages_exported
    /\ current_state.jira_issues_exported = S.jira_issues_exported
    /\ current_state.confluence_spaces_completed = S.confluence_spaces_completed
    /\ current_state.jira_projects_completed = S.jira_projects_completed
    /\ \A x \in PageIds :
          IsConfluencePageExported(x) <=> x \in S.confluence_pages_exported
    /\ \A x \in IssueKeys :
          IsJiraIssueExported(x) <=> x \in S.jira_issues_exported
C12_ResumeRestores ==
    (Returned("resume_export") /\ returned[3] = "state" /\ Active)
        => /\ \E S \in saved : ToDict(S) = disk[returned[2]].data
           /\ \A S \in saved :
                 ToDict(S) = disk[returned[2]].data => C12_SameProgress(S)
C12_Witness ==
    /\ Returned("resume_export")
    /\ returned[3] = "state"
    /\ Active
    /\ save_counter = 0
    /\ current_state.confluence_pages_exported # {}
    /\ current_state.confluence_spaces_completed # <<>>

\* C13 (as stated): once start_new_export has returned, a checkpoint file
\* for the new export_id is on disk and holds the initial state.
C13_Original ==
    (Returned("start_new_export") /\ ~ioFailed) => HoldsState(returned[3])

\* C14 (as stated): once complete_export has written the completion marker
\* of a checkpoint, resume_export of that checkpoint file does not load its
\* state.
C14_Original ==
    (/\ Returned("resume_export")
     /\ returned[2] \in GlobCheckpoints
     /\ disk[WithSuffix(returned[2], "complete")].kind = "json")
        => returned[3] # "state"

\* C15: at every point, a crash at any step inside save_checkpoint
\* included, each checkpoint file either does not exist or holds the
\* complete serialization of an in-memory state that an earlier save
\* serialized; it never holds a partial write.
C15_AtomicCheckpoint ==
    \A path \in GlobCheckpoints :
        Exists(path) =>
            /\ disk[path].kind = "json"
            /\ \E S \in saved : disk[path].data = ToDict(S)
C15_Witness ==
    /\ ~Active
    /\ \E path \in GlobCheckpoints :
          /\ HoldsState(path)
          /\ disk[WithSuffix(path, "tmp")].kind = "partial"
          /\ \E S \in saved : ToDict(S) # disk[path].data

\* C16: cleanup_old_checkpoints(days_to_keep) deletes a checkpoint file
\* and its marker when the marker exists and the checkpoint is older than
\* the cutoff, and changes no other file: a checkpoint without a .complete
\* marker stays, whatever its age.
C16_IsCleanup ==
    /\ cpc = "idle"
    /\ ckOps' # ckOps
    /\ current_state' = current_state
    /\ returned' # <<>>
    /\ returned'[1] = "cleanup_old_checkpoints"
C16_CleanupStep ==
    C16_IsCleanup
        => \A path \in GlobCheckpoints :
             IF /\ Exists(path)
                /\ Exists(WithSuffix(path, "complete"))
                /\ mtime[path] < now - returned'[2]
             THEN /\ disk'[path] = Absent
                  /\ disk'[WithSuffix(path, "complete")] = Absent
                  /\ disk'[WithSuffix(path, "tmp")] = disk[WithSuffix(path, "tmp")]
             ELSE \A suf \in {"json", "tmp", "complete"} :
                    disk'[WithSuffix(path, suf)] = disk[WithSuffix(path, suf)]
C16_CleanupKeepsIncomplete == [][C16_CleanupStep]_vars
C16_Witness ==
    /\ Returned("cleanup_old_checkpoints")
    /\ \E path \in GlobCheckpoints :
          /\ Exists(path)
          /\ ~Exists(WithSuffix(path, "complete"))
          /\ mtime[path] < now - returned[2]
    /\ \E S \in saved :
          /\ ~Exists(CkptFile(S.export_id))
          /\ ~Exists(WithSuffix(CkptFile(S.export_id), "complete"))

\* C17: resume_export(ref) returns None and raises nothing whenever the
\* file is missing, or its contents do not parse as JSON, or they do not
\* construct an ExportState.
C17_ResumeFailsGracefully ==
    (/\ Returned("resume_export")
     /\ (~Exists(returned[2]) \/ LoadError(disk[returned[2]]) # "none"))
        => returned[3] = "none"
C17_Witness ==
    /\ Returned("resume_export")
    /\ Exists(returned[2])
    /\ LoadError(disk[returned[2]]) = "JSONDecodeError"
    /\ returned[3] = "none"

\* C19 (as stated): in every state of an export run, a group in a completed
\* list has every item the run enumerated for it in the exported set.
C19_Original ==
    Active =>
        /\ \A g \in SpaceKeys :
              IsConfluenceSpaceComplete(g)
                  => enumeratedPages[g] \subseteq current_state.confluence_pages_exported
        /\ \A g \in ProjectKeys :
              IsJiraProjectComplete(g)
                  => enumeratedIssues[g] \subseteq current_state.jira_issues_exported

\* C18 (as stated): every underlying HTTP call of a request(), each retry
\* included, is preceded by its own RateLimiter.acquire().
C18_Original == Len(log) <= acquires

\* C18 (as amended): a request() that goes to the network calls
\* RateLimiter.acquire() exactly once, before its first underlying HTTP
\* call, and not again before a retry; every underlying HTTP call, each
\* retry included, is invoked through CircuitBreaker.call: it is admitted
\* by the breaker (not OPEN with recovery_timeout still running) and its
\* outcome is recorded in the breaker.
C18_OneAcquire ==
    (log # <<>> \/ rpc \in {"attempt", "http", "backoff"}) => acquires = 1
C18_CallStep ==
    /\ (rpc' = "http" /\ rpc # "http")
        => /\ rpc = "attempt"
           /\ ~(state = OPEN /\ now - last_failure_time < RecoveryTimeout)
    /\ Len(log') > Len(log)
        => /\ rpc = "http"
           /\ Len(log') = Len(log) + 1
           /\ failure_count' =
                 IF log'[Len(log')] = 200 THEN 0 ELSE failure_count + 1
C18_AcquireOncePerRequest == [] C18_OneAcquire /\ [][C18_CallStep]_vars
C18_Witness ==
    /\ Len(log) = MaxRetries + 1
    /\ acquires = 1
    /\ state = OPEN

C21_ShortWaitFloor ==
    (lastAsk # <<>> /\ lastAsk[2] < lastAsk[1] * TokenScale)
        => (lastWait > 0 /\ lastWait >= MinRequestInterval)
\* the acquire right after BurstSize zero-wait acquires, less than one
\* token's refill time later
C21_Witness ==
    /\ burstRun = BurstSize + 1
    /\ zeroWaits = BurstSize
    /\ lastAsk = <<1, TokenScale - 1>>
    /\ lastWait = MinRequestInterval
    /\ (TokenScale - lastAsk[2]) \div RefillRate < MinRequestInterval

\* C22: a request() with a method other than GET never reads or writes the
\* RequestCache: it is never answered from the cache, it goes on to the
\* underlying HTTP call (unless the circuit breaker rejects it) even when the
\* identical call succeeded just before, and no step of it changes the
\* cache index or a cache file.
C22_NotServed ==
    (req # <<>> /\ req[1] # "GET")
        => /\ outcome # "cached"
           /\ (rpc = "idle" /\ outcome # "circuit_open") => Len(log) >= 1
C22_RequestStep ==
    (/\ req' # <<>>
     /\ req'[1] # "GET"
     /\ (rpc # "idle" \/ reqCount' # reqCount))
        => UNCHANGED cacheVars
C22_NoCacheForNonGet == [] C22_NotServed /\ [][C22_RequestStep]_vars
\* the second of two identical POST calls made with use_cache on a client
\* that has a cache: it returned from the network as the first did, and the
\* cache index is still empty
C22_Witness ==
    /\ rpc = "idle"
    /\ req = <<"POST", "u1", ParamsNone>>
    /\ use_cache /\ cache_enabled
    /\ prevOk = req
    /\ outcome = "ok"
    /\ Len(log) = 1
    /\ cache_index = <<>>

\* C23: when the first k underlying calls of one request() fail with a
\* retryable status (k <= max_retries) and call k + 1 succeeds, request()
\* returns that response after exactly k + 1 underlying calls and exactly k
\* backoff sleeps.
C23_RetryableFailures(k) ==
    /\ Len(log) >= k
    /\ \A i \in 1..k : log[i] \in RetryOnStatusCodes
C23_RetryThenSuccess ==
    \A k \in 0..max_retries :
        (/\ C23_RetryableFailures(k)
         /\ Len(log) > k
         /\ log[k + 1] = 200)
            => /\ rpc = "idle"
               /\ outcome = "ok"
               /\ Len(log) = k + 1
               /\ sleeps = k
C23_Witness ==
    /\ max_retries = MaxRetries
    /\ C23_RetryableFailures(MaxRetries)
    /\ Len(log) = MaxRetries + 1
    /\ log[MaxRetries + 1] = 200
    /\ outcome = "ok"
    /\ sleeps = MaxRetries

\* the marker beside the checkpoint file `path` is whole and its counts are
\* the sizes of the exported lists and of the error list in that file
C24_MarkerMatches(path) ==
    LET marker == disk[WithSuffix(path, "complete")]
        ckpt == disk[path].data
    IN /\ marker.kind = "json"
       /\ marker.data.export_id = ckpt.export_id
       /\ marker.data.total_confluence_pages = Len(ckpt.confluence_pages_exported)
       /\ marker.data.total_jira_issues = Len(ckpt.jira_issues_exported)
       /\ marker.data.errors_count = Len(ckpt.errors_encountered)
C25_Forced(name) ==
    name \in {"mark_confluence_space_complete", "mark_jira_project_complete",
              "record_error", "complete_export"}
\* a step in which an operation of an active manager enters save_checkpoint
C25_IsSave ==
    /\ cpc = "idle"
    /\ save_counter' # save_counter
    /\ current_state' # NoState
\* C25: a save_checkpoint(force) call on an active manager increments
\* save_counter by exactly 1; it goes on to write if and only if force is
\* true or the incremented counter is a multiple of checkpoint_interval, and
\* otherwise returns with every file as it was.  A write that meets no I/O
\* failure leaves the serialization of the in-memory state in the
\* checkpoint file.
C25_SaveStep ==
    C25_IsSave
        => /\ save_counter' = save_counter + 1
           /\ (cpc' = "open_tmp")
                <=> (C25_Forced(op'[1]) \/ save_counter' % CheckpointInterval = 0)
           /\ (cpc' # "open_tmp") => (cpc' = "idle" /\ disk' = disk /\ mtime' = mtime)
C25_Written ==
    (/\ cpc = "idle" /\ returned # <<>> /\ Active /\ ~ioFailed
     /\ returned[1] \notin {"resume_export", "cleanup_old_checkpoints", "complete_export"}
     /\ (C25_Forced(returned[1]) \/ save_counter % CheckpointInterval = 0))
        => /\ HoldsState(checkpoint_file)
           /\ FromDict(disk[checkpoint_file].data) = current_state
C25_SaveInterval == [] C25_Written /\ [][C25_SaveStep]_vars
\* an unforced save whose counter is not a multiple of the interval has
\* returned, and the file still holds what the periodic save before it wrote
C25_Witness ==
    /\ Returned("update_confluence_progress")
    /\ Active
    /\ save_counter = CheckpointInterval + 1
    /\ HoldsState(checkpoint_file)
    /\ Len(disk[checkpoint_file].data.confluence_pages_exported) = 1
    /\ Cardinality(current_state.confluence_pages_exported) = 2

\* C26 as stated: no failure while reading or writing the cache's files, in
\* RequestCache.get or RequestCache.set, makes request() raise.
C26_Original == outcome # "cache_error"

\* C27 as stated: in a run resumed from a checkpoint, while the issues the
\* Jira search fetched are exported, every labelled issue that is not in
\* jira_issues_exported has been fetched and is up for export: the cursor
\* current_batch_start never makes the search pass over a batch that holds
\* an unexported issue.
C27_Original ==
    (opc = "issues" /\ Active)
        => \A i \in 1..Len(JiraLabelled) :
              \/ IsJiraIssueExported(JiraLabelled[i])
              \/ \E g \in ProjectKeys : JiraLabelled[i] \in enumeratedIssues[g]

\* C28 as stated: while the breaker is HALF_OPEN and the probe (the call
\* admitted from OPEN) is still inside the wrapped function, no other caller
\* gets to invoke the wrapped function.
C28_ProbeInFlight ==
    /\ state = HALF_OPEN
    /\ \E t \in probe : pc[t] = "invoking"
C28_Original ==
    [][C28_ProbeInFlight
         => ~(\E t \in Threads : pc[t] = "idle" /\ pc'[t] = "invoking")]_vars

\* C29: in every reachable state of the breaker, under any interleaving of
\* concurrent call()s, state == OPEN implies failure_count >= failure_threshold.
C29_OpenImpliesThreshold == state = OPEN => failure_count >= failure_threshold
\* the circuit is open with a threshold above 1 while another call, admitted
\* earlier, is still inside the wrapped function
C29_Witness ==
    /\ state = OPEN
    /\ failure_threshold > 1
    /\ failure_count >= failure_threshold
    /\ \E t \in Threads : pc[t] = "invoking"

\* C30: when the wrapped function raises while the breaker is HALF_OPEN, the
\* breaker is OPEN again with last_failure_time at the time of that failure,
\* and no call is let through to the wrapped function until a full
\* recovery_timeout has passed since then.
C30_FailsHalfOpen ==
    /\ state = HALF_OPEN
    /\ \E t \in Threads : pc[t] = "invoking" /\ pc'[t] = "idle" /\ result'[t] = "raised"
C30_ReopenStep ==
    /\ C30_FailsHalfOpen => (state' = OPEN /\ last_failure_time' = now)
    /\ (state = OPEN /\ now - last_failure_time < RecoveryTimeout)
         => \A t \in Threads : ~(pc[t] = "idle" /\ pc'[t] = "invoking")
C30_HalfOpenFailureReopens == [][C30_ReopenStep]_vars
\* the probe has raised, the circuit is open again and the new
\* recovery_timeout has not yet passed
C30_Witness ==
    /\ state = OPEN
    /\ \E t \in probe : pc[t] = "idle" /\ result[t] = "raised"
    /\ failure_count > failure_threshold
    /\ now > last_failure_time
    /\ now - last_failure_time < RecoveryTimeout
    /\ last_failure_time - 1 >= RecoveryTimeout

\* C31 as stated: a get() that finds an index entry whose age is >= ttl
\* returns absent and removes both the index entry and the payload file of
\* that fingerprint.
C31_GetStep(r) ==
    /\ cacheOps' # cacheOps
    /\ lastGet' # <<>>
    /\ lastGet'[1] = r
    /\ InIndex(cache_index, KeyOf(r))
    /\ now - TimestampOf(cache_index, KeyOf(r)) >= Ttl
C31_Original ==
    [][\A r \in Requests :
          C31_GetStep(r)
            => /\ lastGet'[2] = PyNone
               /\ ~InIndex(cache_index', KeyOf(r))
               /\ cache_files'[KeyOf(r)] = NoFile]_vars

\* C32 as stated: a crash at any step of saving the cache index leaves
\* index.json with its previous complete contents or the new complete
\* contents, never a truncated or partial file.
C32_Original == index_kind # "partial"

\* C33: for a RequestCache created over an empty directory with
\* max_size >= 1, after any sequence of get and set calls (new keys and
\* repeated keys, in the order the lock gives them) the index holds at most
\* max_size entries.
C33_IndexBounded == max_size >= 1 => Len(cache_index) <= max_size
\* the index is full after more keys were set than it can hold
C33_Witness ==
    /\ max_size = MaxSize
    /\ Len(cache_index) = max_size
    /\ Cardinality({KeyOf(r) : r \in everSet}) > max_size

\* C37 as stated: a set() for a fingerprint that is already in the index
\* evicts no other entry, even when the index is at max_size: every other
\* entry that get would return before the call is still there after it.
C37_SetStep(r) ==
    /\ cacheOps' # cacheOps
    /\ lastGet' = <<>>
    /\ lastSet' = r
    /\ InIndex(cache_index, KeyOf(r))
C37_Original ==
    [][\A r \in Requests :
          C37_SetStep(r)
            => \A k \in AllKeys \ {KeyOf(r)} :
                  Served(k) => (InIndex(cache_index', k) /\ cache_files'[k] = cache_files[k])]_vars

\* C34: _calculate_backoff(a) returns d = min(initial_delay * base^a,
\* max_delay) when jitter is off, and with jitter on a value within
\* [0.75 d, 1.25 d] that is never negative.
C34_D == Min(backoff.initial_delay * Pow(backoff.exponential_base, backoff.attempt),
             backoff.max_delay)
C34_BackoffFormula ==
    backoff # <<>> =>
        IF backoff.jitter
        THEN /\ 4 * backoff.result >= 3 * C34_D * BackoffScale
             /\ 4 * backoff.result <= 5 * C34_D * BackoffScale
             /\ backoff.result >= 0
        ELSE backoff.result = C34_D * BackoffScale
\* a jittered delay below d, for an attempt whose exponential exceeds the cap
C34_Witness ==
    /\ backoff # <<>>
    /\ backoff.jitter
    /\ backoff.initial_delay * Pow(backoff.exponential_base, backoff.attempt) > backoff.max_delay
    /\ backoff.result < C34_D * BackoffScale

\* C35 as stated: the breaker never goes from OPEN directly to CLOSED; CLOSED
\* is entered from OPEN only through HALF_OPEN, after an admitted call
\* succeeded.
C35_Original == [][~(state = OPEN /\ state' = CLOSED)]_vars

\* C36 as stated: for request() calls that all miss the cache and succeed on
\* their first attempt, the number of HTTP calls issued in any time window of
\* length W is at most burst_size + requests_per_second * W (here in units of
\* tokens: TokenScale to a call, RefillRate a tick).
C36_Original ==
    \A i \in 1..Len(callTimes) : \A j \in i..Len(callTimes) :
        (j - i + 1) * TokenScale
            <= max_tokens + RefillRate * (callTimes[j] - callTimes[i])

\* C38: between two operations of an active run on a file system whose
\* writes do not fail, once the checkpoint file holds a state, fewer than
\* checkpoint_interval of the item IDs that update_confluence_progress and
\* update_jira_progress added to the in-memory state are missing from the
\* checkpoint on disk.
C38_OnDisk == FromDict(disk[checkpoint_file].data)
C38_NotOnDisk ==
    (current_state.confluence_pages_exported \ C38_OnDisk.confluence_pages_exported)
        \cup (current_state.jira_issues_exported \ C38_OnDisk.jira_issues_exported)
C38_UnsavedBounded ==
    (Active /\ cpc = "idle" /\ HoldsState(checkpoint_file))
        => Cardinality(C38_NotOnDisk) <= CheckpointInterval - 1
\* an item is in memory only, after a write that put an earlier item on disk
C38_Witness ==
    /\ Active
    /\ cpc = "idle"
    /\ HoldsState(checkpoint_file)
    /\ Cardinality(C38_NotOnDisk) = CheckpointInterval - 1
    /\ C38_OnDisk.confluence_pages_exported \cup C38_OnDisk.jira_issues_exported # {}
    /\ op[1] \in {"update_confluence_progress", "update_jira_progress"}

\* C39: from the point a run's state is started or resumed until the manager
\* is given a new state, no operation removes an element from
\* confluence_pages_exported or jira_issues_exported; the completed lists
\* and errors_encountered only grow at their end, the order of what they
\* held kept; and a completed list never gains a duplicate.
C39_IsPrefix(l, m) == Len(l) <= Len(m) /\ \A i \in 1..Len(l) : m[i] = l[i]
C39_NoDuplicate(l) == Cardinality(ListToSet(l)) = Len(l)
C39_SameRun ==
    /\ Active
    /\ Active'
    /\ checkpoint_file' = checkpoint_file
    /\ ~(ckOps' # ckOps /\ returned' # <<>> /\ returned'[1] = "resume_export")
C39_Grows ==
    /\ current_state.confluence_pages_exported \subseteq current_state'.confluence_pages_exported
    /\ current_state.jira_issues_exported \subseteq current_state'.jira_issues_exported
    /\ C39_IsPrefix(current_state.confluence_spaces_completed,
                    current_state'.confluence_spaces_completed)
    /\ C39_IsPrefix(current_state.jira_projects_completed,
                    current_state'.jira_projects_completed)
    /\ C39_IsPrefix(current_state.errors_encountered, current_state'.errors_encountered)
    /\ C39_NoDuplicate(current_state.confluence_spaces_completed)
         => C39_NoDuplicate(current_state'.confluence_spaces_completed)
    /\ C39_NoDuplicate(current_state.jira_projects_completed)
         => C39_NoDuplicate(current_state'.jira_projects_completed)
C39_AppendOnly == [][C39_SameRun => C39_Grows]_vars
\* a space was marked complete a second time: three saves were counted, the
\* last by a mark, and the space is all the state holds
C39_Witness ==
    /\ Active
    /\ cpc = "idle"
    /\ save_counter = 3
    /\ op = <<"mark_confluence_space_complete", "S1">>
    /\ current_state =
          [NewState(current_state.export_id) EXCEPT !.confluence_spaces_completed = <<"S1">>]
    /\ ~Exists(CompletionFile)

\* C40 as stated: search_confluence_spaces, run with an active checkpoint
\* state, requests the offsets 0, batch_size, 2 * batch_size, ... in that
\* order until a batch comes back empty or short; the batch at offset 0 is
\* always requested.
C40_Original ==
    \A i \in 1..Len(searchOffsets) : searchOffsets[i] = (i - 1) * ConfluenceBatchSize

====
